---------------------------- MODULE Spec2Model ----------------------------
(***************************************************************************)
(* Verification model of the CAD extraction repository:                    *)
(*   - dxf2csv.py            entity flattening with group / module ids     *)
(*   - dxf_table_to_csv.py   table grid reconstruction                     *)
(*   - extract_dxf_table.py  coordinate snapping (_snap_positions)         *)
(*                                                                         *)
(* Conventions                                                             *)
(*   - Python strings that take part in key composition are sequences of   *)
(*     one-character strings, so that f"{layer}|{raw_key}" is a real       *)
(*     concatenation.  The empty sequence stands for None / "".            *)
(*   - An id column that is blank ("" in the CSV row, None in the call) is *)
(*     the number 0; assigned ids start at 1, and str(int) is injective.   *)
(*   - Drawing coordinates are integers in tenths of a drawing unit.       *)
(***************************************************************************)
EXTENDS Integers, Sequences, FiniteSets, TLC

VARIABLES
    \* ---- coordinate snapping (dedupe_sorted, _snap_positions) ----
    snapIn,      \* the list of values handed to the snapping routines
    snapTol,     \* the tolerance
    snapOut1,    \* [d |-> dedupe_sorted result, s |-> _snap_positions result]
    snapOut2,    \* the same routines applied to snapOut1
    snapPc       \* "idle" | "start" | "once" | "twice"

snapVars == <<snapIn, snapTol, snapOut1, snapOut2, snapPc>>

VARIABLES
    \* ---- entity flattening (dxf2csv.py: export_dxf_to_csv / handle_entity) ----
    doc,         \* the parsed document: [spaces, bodyA]
    phase,       \* "idle" | "start" | "walk" | "done" | "failed" | "crashed"
    sp,          \* index of the layout being walked (spaces[sp])
    idx,         \* index of the entity being walked in that layout
    stack,       \* INSERT expansions in progress (the recursion of handle_entity)
    rows,        \* the rows appended so far
    ctx,         \* the numbering context of export_dxf_to_csv
    entered      \* history: occurrences on which handle_entity was entered

flatVars == <<doc, phase, sp, idx, stack, rows, ctx, entered>>

VARIABLES
    \* ---- table reconstruction (dxf_table_to_csv.py: main) ----
    verticals,   \* vertical rule segments <<x, y1, y2>>
    horizontals, \* horizontal rule segments <<y, x1, x2>>
    msp,         \* the text-bearing entities of the model space
    grid,        \* the Grid build_grid returned
    contents,    \* cell -> texts, as collect_cell_contents returned it
    matrix,      \* the rows write_csv wrote
    tpc          \* "idle" | "start" | "grid" | "contents" | "written" | "error"

tableVars == <<verticals, horizontals, msp, grid, contents, matrix, tpc>>

VARIABLES
    \* ---- the process that calls export_dxf_to_csv (dxf2csv.py: main, main.py) ----
    csv,         \* the file at csv_path: [exists, rows]
    past,        \* history: the invocations that returned, [doc, rows] each
    err          \* the exception that left export_dxf_to_csv ("" if none)

procVars == <<csv, past, err>>

VARIABLES
    \* ---- table isolation (extract_dxf_table.py: export_tables_structured) ----
    v_segs,      \* vertical segments <<x, y1, y2>> of the layout, in entity order
    h_segs,      \* horizontal segments <<y, x1, x2>> of the layout, in entity order
    written,     \* the clips written: written[k] is the rectangle of grid_k
    tableInput,  \* what dxf_table_to_csv.py found at INPUT_DXF (grid_1)
    xpc          \* "idle" | "start" | "exported" | "read" | "missing"

extractVars == <<v_segs, h_segs, written, tableInput, xpc>>

VARIABLES
    \* ---- the end-to-end pipeline (main.py: main) ----
    ppc,           \* the step main is about to run ("idle", a step name, "end")
    plog,          \* history: the steps attempted, [step, out] each
    pret,          \* how main ended: [kind |-> "running" | "returned" | "raised", code]
    skip_colorize  \* args.skip_colorize

pipeVars == <<ppc, plog, pret, skip_colorize>>

vars == <<snapVars, flatVars, tableVars, procVars, extractVars, pipeVars>>

\* what the actions of one program leave alone
otherThanSnap == <<flatVars, tableVars, procVars, extractVars, pipeVars>>

otherThanFlat == <<snapVars, tableVars, procVars, extractVars, pipeVars>>

otherThanTable == <<snapVars, flatVars, procVars, extractVars, pipeVars>>

\* what an invocation of export_dxf_to_csv and its caller leave alone
otherThanProc == <<snapVars, tableVars, extractVars, pipeVars>>

otherThanExtract == <<snapVars, flatVars, tableVars, procVars, pipeVars>>

otherThanPipe == <<snapVars, flatVars, tableVars, procVars, extractVars>>

\* main has not returned
NotReturned == [kind |-> "running", code |-> 0]

----------------------------------------------------------------------------
(* Generic helpers *)

Abs(a) == IF a < 0 THEN -a ELSE a

Max2(a, b) == IF a > b THEN a ELSE b

Min2(a, b) == IF a < b THEN a ELSE b

Last(s) == s[Len(s)]

RECURSIVE GCD(_, _)
GCD(a, b) == IF b = 0 THEN a ELSE GCD(b, a % b)

\* All sequences over S of length at most n.
SeqsUpTo(S, n) == UNION {[1..k -> S] : k \in 0..n}

----------------------------------------------------------------------------
(* Rational numbers <<n, d>>, d > 0, in lowest terms: the values that      *)
(* sum(g) / len(g) produces from integer inputs (float rounding is not     *)
(* modelled).                                                              *)

Rat(n, d) == LET g == GCD(Abs(n), d) IN <<n \div g, d \div g>>

RatOfInt(n) == <<n, 1>>

RatLess(a, b) == a[1] * b[2] < b[1] * a[2]

RatAdd(a, b) == Rat(a[1] * b[2] + b[1] * a[2], a[2] * b[2])

\* abs(a - b) <= tol, tol an integer
RatWithin(a, b, tol) == Abs(a[1] * b[2] - b[1] * a[2]) <= tol * a[2] * b[2]

RECURSIVE RatSum(_)
RatSum(g) == IF g = <<>> THEN <<0, 1>> ELSE RatAdd(g[1], RatSum(Tail(g)))

\* sum(g) / len(g)
RatMean(g) == LET s == RatSum(g) IN Rat(s[1], s[2] * Len(g))

----------------------------------------------------------------------------
(* dxf_table_to_csv.py: dedupe_sorted                                      *)

\* The loop of dedupe_sorted over the sorted values: keep v when it is more
\* than tol away from the last value kept.
RECURSIVE DedupeLoop(_, _, _)
DedupeLoop(merged, rest, tol) ==
    IF rest = <<>> THEN merged
    ELSE LET v == Head(rest) IN
         IF Abs(v - Last(merged)) > tol
         THEN DedupeLoop(Append(merged, v), Tail(rest), tol)
         ELSE DedupeLoop(merged, Tail(rest), tol)

dedupe_sorted(values, tol) ==
    IF values = <<>> THEN <<>>
    ELSE LET sorted == SortSeq(values, LAMBDA a, b : a < b)
         IN DedupeLoop(<<sorted[1]>>, Tail(sorted), tol)

(* extract_dxf_table.py: _snap_positions                                   *)

\* Whether v joins the current group: compared with the group's last member
\* (SnapJoinsFirst compares with its first member instead).
SnapJoinsFirst(v, current, tol) == RatWithin(v, current[1], tol)

SnapJoins(v, current, tol) == RatWithin(v, Last(current), tol)

RECURSIVE SnapLoop(_, _, _, _)
SnapLoop(groups, current, rest, tol) ==
    IF rest = <<>> THEN Append(groups, current)
    ELSE LET v == Head(rest) IN
         IF SnapJoins(v, current, tol)
         THEN SnapLoop(groups, Append(current, v), Tail(rest), tol)
         ELSE SnapLoop(Append(groups, current), <<v>>, Tail(rest), tol)

snap_positions(values, tol) ==
    IF values = <<>> THEN <<>>
    ELSE LET sorted == SortSeq(values, RatLess)
             groups == SnapLoop(<<>>, <<sorted[1]>>, Tail(sorted), tol)
         IN [k \in 1..Len(groups) |-> RatMean(groups[k])]

----------------------------------------------------------------------------
(* dxf2csv.py: strings, documents, the numbering context                   *)

\* None as an argument (curr_block_id, ...) and "" as an id column.
NoId == 0

Digits == <<"0", "1", "2", "3", "4", "5", "6", "7", "8", "9">>

\* str(i) for a non-negative integer
RECURSIVE IntStr(_)
IntStr(i) == IF i < 10 THEN <<Digits[i + 1]>>
             ELSE IntStr(i \div 10) \o <<Digits[(i % 10) + 1]>>

L1 == <<"L", "1">>
L2 == <<"L", "2">>
\* a layer of an external reference: AutoCAD names it "<xref>|<layer>"
LX == <<"X", "|", "L", "1">>

\* An entity as handle_entity reads it.
\*   n      vertices / control points / non-None face corners / hatch seeds
\*   paths  boundary paths of a HATCH, each giving pv vertex rows
\*   bad    an accessor outside every inner try raises (the call raises on entry)
\*   fail   the accessor inside the branch's own try raises (vertices(),
\*          control_points, virtual_entities(), the HATCH paths)
\*   paper  the entity lies in the paper space layout
Ent(type, layer, n) ==
    [type |-> type, layer |-> layer, name |-> "", n |-> n, paths |-> 0, pv |-> 0,
     bad |-> FALSE, fail |-> FALSE, paper |-> FALSE]

Ins(name, layer) == [Ent("INSERT", layer, 0) EXCEPT !.name = name]

Hatch(layer, seeds, paths, pv) == [Ent("HATCH", layer, seeds) EXCEPT !.paths = paths, !.pv = pv]

\* f"{layer}|{raw_key}"
GroupKeyNoLayer(layer, raw_key) == raw_key

GroupKeyOf(layer, raw_key) == layer \o <<"|">> \o raw_key

\* f"{raw_key}": the layer is deliberately not part of the key
ModuleKeyOf(layer, raw_key) == raw_key

\* ctx["next_group_id"] += 1
NextGroupIdStuck(n) == n

NextGroupId(n) == n + 1

\* ctx["next_module_id"] += 1
NextModuleIdStuck(n) == n

NextModuleId(n) == n + 1

\* F(e), with e evaluated once and handed to F as a value
Once(e, F(_)) == CHOOSE v \in {F(x) : x \in {e}} : TRUE

MapPut(m, k, v) == [x \in (DOMAIN m) \cup {k} |-> IF x = k THEN v ELSE m[x]]

\* the file at csv_path before export_dxf_to_csv runs: missing, or left by an
\* earlier export
CsvAbsent == [exists |-> FALSE, rows |-> <<>>]

CsvOld == [exists |-> TRUE, rows |-> <<"old">>]

CsvStates == {CsvAbsent, CsvOld}

\* ctx of export_dxf_to_csv.  greq / mreq are history: the requests served.
CtxInit ==
    [group_id_map |-> <<>>, next_group_id |-> 1,
     module_id_map |-> <<>>, next_module_id |-> 1,
     next_insert_id |-> 1, module_nowid_to_block_name |-> <<>>,
     greq |-> {}, mreq |-> {}]

assign_group_numeric_id(c, layer, raw_key) ==
    LET key == GroupKeyOf(layer, raw_key)
        Assign(m) ==
            LET c1 == IF key \in DOMAIN m.group_id_map THEN m
                      ELSE [m EXCEPT !.group_id_map = MapPut(@, key, m.next_group_id),
                                     !.next_group_id = NextGroupId(@)]
                id == c1.group_id_map[key]
            IN [id |-> id,
                ctx |-> [c1 EXCEPT !.greq = @ \cup {[layer |-> layer, raw |-> raw_key, id |-> id]}]]
    IN Once(c, Assign)

assign_module_numeric_id(c, layer, raw_key) ==
    LET key == ModuleKeyOf(layer, raw_key)
        Assign(m) ==
            LET c1 == IF key \in DOMAIN m.module_id_map THEN m
                      ELSE [m EXCEPT !.module_id_map = MapPut(@, key, m.next_module_id),
                                     !.next_module_id = NextModuleId(@)]
                id == c1.module_id_map[key]
            IN [id |-> id,
                ctx |-> [c1 EXCEPT !.mreq = @ \cup {[layer |-> layer, raw |-> raw_key, id |-> id]}]]
    IN Once(c, Assign)

\* str(_assign_module_numeric_id(ctx, layer, module_key)) if (ctx and module_key) else ""
ModOrBlank(c, layer, module_key) ==
    IF module_key # <<>> THEN assign_module_numeric_id(c, layer, module_key)
    ELSE [id |-> NoId, ctx |-> c]

----------------------------------------------------------------------------
(* dxf2csv.py: handle_entity, one operator per branch.  A call is           *)
(*   [e, depth, group_key, module_key, curr, father, root, space, path, h]  *)
(* where h is  safe_get(e.dxf, "handle", "") or hex(id(e))  and path names  *)
(* the occurrence: <<layout, index, child, child, ...>> (history).          *)
(* A branch returns the rows it appends and the context it leaves.          *)

make_row(c) ==
    [layer |-> c.e.layer, sub |-> c.e.type, gid |-> NoId, mid |-> NoId,
     vidx |-> NoId, hpath |-> NoId, space |-> c.space,
     father |-> IF c.curr # NoId THEN c.father ELSE NoId,
     now    |-> c.curr,
     root   |-> IF c.curr # NoId THEN (IF c.root # NoId THEN c.root ELSE c.curr) ELSE NoId,
     src |-> c.path, part |-> "row"]

\* r[8] = <module id or blank>; rows.append(r)
RowWithModule(c, cx) ==
    LET m == ModOrBlank(cx, c.e.layer, c.module_key)
    IN [rows |-> <<[make_row(c) EXCEPT !.mid = m.id]>>, ctx |-> m.ctx]

\* POINT: the row is appended without any r[8] assignment
PointBranch(c, cx) == [rows |-> <<make_row(c)>>, ctx |-> cx]

LineBranch(c, cx) == RowWithModule(c, cx)

\* the rows of the vertex loop; an exception in e.vertices() ends the loop
VertexRows(c, gid, mid) ==
    IF c.e.fail THEN <<>>
    ELSE [k \in 1..c.e.n |->
            [make_row(c) EXCEPT !.gid = gid, !.mid = mid, !.vidx = k, !.part = "vertex"]]

LwpolylineBranch(c, cx) ==
    LET raw_gkey == IF c.group_key # <<>> THEN c.group_key ELSE c.h
        g == assign_group_numeric_id(cx, c.e.layer, raw_gkey)
        m == ModOrBlank(g.ctx, c.e.layer, c.module_key)
    IN [rows |-> VertexRows(c, g.id, m.id), ctx |-> m.ctx]

PolylineBranch(c, cx) ==
    LET raw_gkey == IF c.e.type = "POLYLINE"
                    THEN (IF c.group_key # <<>> THEN c.group_key ELSE c.h)
                    ELSE c.group_key
        g == IF c.e.type = "POLYLINE" /\ raw_gkey # <<>>
             THEN assign_group_numeric_id(cx, c.e.layer, raw_gkey)
             ELSE [id |-> NoId, ctx |-> cx]
        m == ModOrBlank(g.ctx, c.e.layer, c.module_key)
    IN [rows |-> VertexRows(c, g.id, m.id), ctx |-> m.ctx]

\* FACE3D: one row per corner that is not None
Face3dBranch(c, cx) ==
    LET m == ModOrBlank(cx, c.e.layer, c.module_key)
    IN [rows |-> [k \in 1..c.e.n |-> [make_row(c) EXCEPT !.mid = m.id, !.part = "vertex"]],
        ctx |-> m.ctx]

CircleBranch(c, cx) == RowWithModule(c, cx)

ArcBranch(c, cx) == RowWithModule(c, cx)

EllipseBranch(c, cx) == RowWithModule(c, cx)

SplineBranch(c, cx) ==
    LET m == ModOrBlank(cx, c.e.layer, c.module_key)
    IN [rows |-> VertexRows(c, NoId, m.id), ctx |-> m.ctx]

TextBranch(c, cx) == RowWithModule(c, cx)

\* the generic fallback: a located row or the placeholder row, one row either way
OtherBranch(c, cx) == RowWithModule(c, cx)

\* r[8] of a HATCH row: the owning INSERT's module_key, else a key of the hatch's own
HatchModuleOwn(c, cx, raw_mkey) == assign_module_numeric_id(cx, c.e.layer, raw_mkey)

HatchModule(c, cx, raw_mkey) ==
    IF c.module_key # <<>> THEN assign_module_numeric_id(cx, c.e.layer, c.module_key)
    ELSE assign_module_numeric_id(cx, c.e.layer, raw_mkey)

\* for idx, sp in enumerate(seeds): raw_mkey = f"{handle}:seed{idx}"
RECURSIVE HatchSeedRows(_, _, _, _)
HatchSeedRows(c, cx, i, acc) ==
    IF i >= c.e.n THEN [rows |-> acc, ctx |-> cx]
    ELSE LET raw_mkey == c.h \o <<":", "s", "e", "e", "d">> \o IntStr(i)
             Rest(m) ==
                 HatchSeedRows(c, m.ctx, i + 1,
                               Append(acc, [make_row(c) EXCEPT !.mid = m.id, !.part = "seed"]))
         IN Once(HatchModule(c, cx, raw_mkey), Rest)

\* the vertex rows of one boundary path (from path.vertices, else synthesized
\* from path.edges): each asks again for the ids of the path's key
RECURSIVE HatchPathVertexRows(_, _, _, _, _, _)
HatchPathVertexRows(c, cx, raw_mkey, i, v, acc) ==
    IF v >= c.e.pv THEN [rows |-> acc, ctx |-> cx]
    ELSE LET Rest(m) ==
                 LET Rest2(g) ==
                         HatchPathVertexRows(c, g.ctx, raw_mkey, i, v + 1,
                             Append(acc, [make_row(c) EXCEPT !.mid = m.id, !.gid = g.id,
                                             !.vidx = v + 1, !.hpath = i + 1,
                                             !.part = "pathvertex"]))
                 IN Once(assign_group_numeric_id(m.ctx, c.e.layer, raw_mkey), Rest2)
         IN Once(HatchModule(c, cx, raw_mkey), Rest)

\* for idx, path in enumerate(paths): raw_mkey = f"{handle}:p{idx}"
RECURSIVE HatchPathRows(_, _, _, _)
HatchPathRows(c, cx, i, acc) ==
    IF i >= c.e.paths THEN [rows |-> acc, ctx |-> cx]
    ELSE LET raw_mkey == c.h \o <<":", "p">> \o IntStr(i)
             Rest(m) ==
                 LET Rest2(g) ==
                         LET r == [make_row(c) EXCEPT !.mid = m.id, !.gid = g.id,
                                                      !.hpath = i + 1, !.part = "path"]
                             Rest3(vs) == HatchPathRows(c, vs.ctx, i + 1, vs.rows)
                         IN Once(HatchPathVertexRows(c, g.ctx, raw_mkey, i, 0, Append(acc, r)),
                                 Rest3)
                 IN Once(assign_group_numeric_id(m.ctx, c.e.layer, raw_mkey), Rest2)
         IN Once(HatchModule(c, cx, raw_mkey), Rest)

HatchBranch(c, cx) ==
    IF c.e.fail
    THEN \* except Exception: one row with the pattern fields
         LET m == ModOrBlank(cx, c.e.layer, c.module_key)
         IN [rows |-> <<[make_row(c) EXCEPT !.mid = m.id, !.part = "fallback"]>>, ctx |-> m.ctx]
    ELSE IF c.e.n > 0 THEN HatchSeedRows(c, cx, 0, <<>>)
    ELSE IF c.e.paths = 0
    THEN LET m == HatchModule(c, cx, c.h \o <<":", "p", "0">>)
         IN [rows |-> <<[make_row(c) EXCEPT !.mid = m.id, !.part = "nopath"]>>, ctx |-> m.ctx]
    ELSE HatchPathRows(c, cx, 0, <<>>)

\* if depth < 10:
MaxDepth == 10

DepthGuardInclusive(depth) == depth <= MaxDepth

DepthGuardOff(depth) == TRUE

DepthGuard(depth) == depth < MaxDepth

\* this_root_id = root_block_id if root_block_id is not None else next_id
ThisRootIdOwn(root_block_id, next_id) == next_id

ThisRootId(root_block_id, next_id) ==
    IF root_block_id # NoId THEN root_block_id ELSE next_id

\* ctx["next_insert_id"] = next_id + 1
NextInsertIdStuck(next_id) == next_id

NextInsertId(next_id) == next_id + 1

\* The INSERT's own row and the values its child loop uses.
InsertBranch(c, cx) ==
    LET next_id == cx.next_insert_id
        parent_id == c.curr
        this_root_id == ThisRootId(c.root, next_id)
        raw_mkey == IF c.module_key # <<>> THEN c.module_key ELSE c.h
        m == assign_module_numeric_id([cx EXCEPT !.next_insert_id = NextInsertId(next_id)],
                                      c.e.layer, raw_mkey)
        c2 == [m.ctx EXCEPT !.module_nowid_to_block_name = MapPut(@, next_id, c.e.name)]
        r == [make_row(c) EXCEPT !.mid = m.id, !.father = parent_id, !.now = next_id,
                                 !.root = this_root_id, !.part = "insert"]
    IN [rows |-> <<r>>, ctx |-> c2,
        frame |-> [kids |-> <<>>, i |-> 1, depth |-> c.depth, raw_mkey |-> raw_mkey,
                   next_id |-> next_id, parent_id |-> parent_id,
                   this_root_id |-> this_root_id, path |-> c.path, space |-> c.space]]

----------------------------------------------------------------------------
(* The documents the walk is run on.                                       *)

MaxTop == 2        \* entities in the layouts of a document
MaxKids == 2       \* entities in the body of block "A"
RecLimit == 12     \* stands for the interpreter's recursion limit (above MaxDepth)

\* what a virtual entity's hex(id(ve)) can be: a freed address may be reused
Addr == {<<"0", "x", "a">>, <<"0", "x", "b">>}

\* the subsequences of pool with at most n entities (pool order kept)
RECURSIVE SubSeqsFrom(_, _, _)
SubSeqsFrom(pool, k, n) ==
    IF k > Len(pool) \/ n = 0 THEN {<<>>}
    ELSE SubSeqsFrom(pool, k + 1, n)
         \cup {<<pool[k]>> \o t : t \in SubSeqsFrom(pool, k + 1, n - 1)}

SubSeqsOf(pool, n) == SubSeqsFrom(pool, 1, n)

\* candidates for the body of block "A"
KidPool ==
    << Ent("POINT", L2, 0),
       Ent("LINE", L1, 0),
       Ent("LWPOLYLINE", L1, 2),
       [Ent("TEXT", L2, 0) EXCEPT !.bad = TRUE],
       Ent("LWPOLYLINE", L2, 2),
       Hatch(L2, 2, 0, 0),
       Hatch(LX, 0, 2, 1),
       Hatch(L1, 0, 0, 0),
       [Hatch(L2, 0, 1, 1) EXCEPT !.fail = TRUE],
       Ins("C", L2) >>

\* block "B": the remaining branches
BodyB ==
    << Ent("CIRCLE", L1, 0), Ent("ARC", L2, 0), Ent("ELLIPSE", L1, 0),
       Ent("MTEXT", L2, 0), Ent("FACE3D", L1, 3), Ent("SPLINE", L2, 2),
       Ent("MESH", L1, 1), Ent("POLYLINE", L2, 2), Ent("DIMENSION", L2, 0) >>

BodyC == << Ent("LWPOLYLINE", L2, 2), Ent("POINT", L1, 0) >>

\* block "N" nests two instances of "C"; block "S" contains an instance of itself
BodyN == << Ins("C", L2), Ins("C", L1) >>

BodyS == << Ent("LINE", L2, 0), Ins("S", L1) >>

\* candidates for the entities of the layouts
TopPool ==
    << Ins("A", L1),
       Ent("LWPOLYLINE", L1, 2),
       [Ent("LINE", L1, 0) EXCEPT !.bad = TRUE],
       Ins("N", L1),
       Ent("LWPOLYLINE", L2, 2),
       Ent("LWPOLYLINE", L1, 0),
       Hatch(L1, 2, 0, 0),
       Hatch(L2, 0, 2, 1),
       Ins("S", L2),
       Ent("DIMENSION", L1, 0),
       Ins("B", L2),
       [Ent("CIRCLE", L1, 0) EXCEPT !.paper = TRUE] >>

UsesA(top) == \E k \in 1..Len(top) : top[k].type = "INSERT" /\ top[k].name = "A"

\* a document: its layouts and the body of its block "A" (the other blocks are fixed)
MkDoc(top, bodyA) ==
    [spaces |-> << [name |-> "Model",   ents |-> SelectSeq(top, LAMBDA e : ~e.paper)],
                   [name |-> "Layout1", ents |-> SelectSeq(top, LAMBDA e : e.paper)] >>,
     bodyA |-> bodyA]

Blocks(d) == [A |-> d.bodyA, B |-> BodyB, C |-> BodyC, N |-> BodyN, S |-> BodyS]

Tops == SubSeqsOf(TopPool, MaxTop)

Bodies == SubSeqsOf(KidPool, MaxKids)

Docs ==
    UNION { {MkDoc(top, body) : body \in (IF UsesA(top) THEN Bodies ELSE {<<>>})} :
            top \in Tops }

\* the handle of the k-th entity of layout s: unique in the document
HandleOf(s, k) == <<IF s = 1 THEN "A" ELSE "B", Digits[k + 1]>>

\* e.virtual_entities(): the entities of the referenced block
virtual_entities(e) == Blocks(doc)[e.name]

----------------------------------------------------------------------------
(* export_dxf_to_csv: the walk over the layouts, and the recursion of      *)
(* handle_entity as a stack of INSERT expansions.                          *)

FlatInit ==
    /\ doc \in Docs
    /\ phase = "walk"
    /\ sp = 1
    /\ idx = 1
    /\ stack = <<>>
    /\ rows = <<>>
    /\ ctx = CtxInit
    /\ entered = {}
    /\ snapIn = <<>>
    /\ snapTol = 0
    /\ snapOut1 = [d |-> <<>>, s |-> <<>>]
    /\ snapOut2 = [d |-> <<>>, s |-> <<>>]
    /\ snapPc = "idle"
    /\ verticals = <<>>
    /\ horizontals = <<>>
    /\ msp = <<>>
    /\ grid = [xs |-> <<>>, ys_desc |-> <<>>, rows |-> 0, cols |-> 0,
               vertical_edges |-> {}, horizontal_edges |-> {}]
    /\ contents = <<>>
    /\ matrix = <<>>
    /\ tpc = "idle"
    /\ csv = CsvAbsent
    /\ past = <<>>
    /\ err = ""
    /\ v_segs = <<>>
    /\ h_segs = <<>>
    /\ written = <<>>
    /\ tableInput = <<>>
    /\ xpc = "idle"
    /\ ppc = "idle"
    /\ plog = <<>>
    /\ pret = NotReturned
    /\ skip_colorize = FALSE

Top == stack[Len(stack)]

Ents == doc.spaces[sp].ents

\* a call of handle_entity is pending
HasCall ==
    /\ phase = "walk"
    /\ IF stack = <<>> THEN idx <= Len(Ents) ELSE Top.i <= Len(Top.kids)

\* the addresses the pending call's entity may have
AddrChoices == IF stack = <<>> THEN {<<>>} ELSE Addr

\* the pending call: handle_entity(e, rows, sp_name, ctx=ctx) of the walk, or
\* handle_entity(ve, rows, space_name, depth + 1, group_key=gkey, module_key=raw_mkey,
\*               ctx=ctx, curr_block_id=next_id, father_block_id=parent_id,
\*               root_block_id=this_root_id) of the child loop
Cur(a) ==
    IF stack = <<>>
    THEN [e |-> Ents[idx], depth |-> 0, group_key |-> <<>>, module_key |-> <<>>,
          curr |-> NoId, father |-> NoId, root |-> NoId,
          space |-> doc.spaces[sp].name, path |-> <<sp, idx>>, h |-> HandleOf(sp, idx)]
    ELSE LET f == Top IN
         [e |-> f.kids[f.i], depth |-> f.depth + 1,
          group_key |-> ((f.raw_mkey \o <<":">>) \o a) \o (<<":">> \o IntStr(f.i - 1)),
          module_key |-> f.raw_mkey,
          curr |-> f.next_id, father |-> f.parent_id, root |-> f.this_root_id,
          space |-> f.space, path |-> Append(f.path, f.i), h |-> a]

\* the call raises: an accessor of the entity fails, or the recursion limit is hit
Raises(c) == c.e.bad \/ Len(stack) >= RecLimit

\* the pending call returned: the loop it was made from moves on
Advance ==
    IF stack = <<>>
    THEN idx' = idx + 1 /\ stack' = stack
    ELSE idx' = idx /\ stack' = [stack EXCEPT ![Len(stack)].i = @ + 1]

\* the INSERT on top of the stack returns, and the loop that called it moves on
PopAdvance ==
    LET s1 == SubSeq(stack, 1, Len(stack) - 1) IN
    IF s1 = <<>>
    THEN idx' = idx + 1 /\ stack' = <<>>
    ELSE idx' = idx /\ stack' = [s1 EXCEPT ![Len(s1)].i = @ + 1]

KnownTypes ==
    {"POINT", "LINE", "LWPOLYLINE", "POLYLINE", "MESH", "POLYFACE", "FACE3D", "CIRCLE",
     "ARC", "ELLIPSE", "SPLINE", "TEXT", "MTEXT", "INSERT", "HATCH"}

\* every type tag that occurs in the documents
AnyType == KnownTypes \cup {"DIMENSION"}

\* the pending call does not raise and dispatches to the branch of these types
Dispatch(c, types) == ~Raises(c) /\ c.e.type \in types

\* a branch that does not recurse has run: its rows and context
Emit(c, r) ==
    /\ rows' = rows \o r.rows
    /\ ctx' = r.ctx
    /\ entered' = entered \cup {c.path}

HandlePoint ==
    /\ HasCall
    /\ \E a \in AddrChoices :
         /\ Dispatch(Cur(a), {"POINT"})
         /\ \E r \in {PointBranch(Cur(a), ctx)} : Emit(Cur(a), r)
    /\ Advance
    /\ UNCHANGED <<doc, phase, sp>>
    /\ UNCHANGED otherThanFlat

HandleLine ==
    /\ HasCall
    /\ \E a \in AddrChoices :
         /\ Dispatch(Cur(a), {"LINE"})
         /\ \E r \in {LineBranch(Cur(a), ctx)} : Emit(Cur(a), r)
    /\ Advance
    /\ UNCHANGED <<doc, phase, sp>>
    /\ UNCHANGED otherThanFlat

HandleLwpolyline ==
    /\ HasCall
    /\ \E a \in AddrChoices :
         /\ Dispatch(Cur(a), {"LWPOLYLINE"})
         /\ \E r \in {LwpolylineBranch(Cur(a), ctx)} : Emit(Cur(a), r)
    /\ Advance
    /\ UNCHANGED <<doc, phase, sp>>
    /\ UNCHANGED otherThanFlat

HandlePolyline ==
    /\ HasCall
    /\ \E a \in AddrChoices :
         /\ Dispatch(Cur(a), {"POLYLINE", "MESH", "POLYFACE"})
         /\ \E r \in {PolylineBranch(Cur(a), ctx)} : Emit(Cur(a), r)
    /\ Advance
    /\ UNCHANGED <<doc, phase, sp>>
    /\ UNCHANGED otherThanFlat

HandleFace3d ==
    /\ HasCall
    /\ \E a \in AddrChoices :
         /\ Dispatch(Cur(a), {"FACE3D"})
         /\ \E r \in {Face3dBranch(Cur(a), ctx)} : Emit(Cur(a), r)
    /\ Advance
    /\ UNCHANGED <<doc, phase, sp>>
    /\ UNCHANGED otherThanFlat

HandleCircle ==
    /\ HasCall
    /\ \E a \in AddrChoices :
         /\ Dispatch(Cur(a), {"CIRCLE"})
         /\ \E r \in {CircleBranch(Cur(a), ctx)} : Emit(Cur(a), r)
    /\ Advance
    /\ UNCHANGED <<doc, phase, sp>>
    /\ UNCHANGED otherThanFlat

HandleArc ==
    /\ HasCall
    /\ \E a \in AddrChoices :
         /\ Dispatch(Cur(a), {"ARC"})
         /\ \E r \in {ArcBranch(Cur(a), ctx)} : Emit(Cur(a), r)
    /\ Advance
    /\ UNCHANGED <<doc, phase, sp>>
    /\ UNCHANGED otherThanFlat

HandleEllipse ==
    /\ HasCall
    /\ \E a \in AddrChoices :
         /\ Dispatch(Cur(a), {"ELLIPSE"})
         /\ \E r \in {EllipseBranch(Cur(a), ctx)} : Emit(Cur(a), r)
    /\ Advance
    /\ UNCHANGED <<doc, phase, sp>>
    /\ UNCHANGED otherThanFlat

HandleSpline ==
    /\ HasCall
    /\ \E a \in AddrChoices :
         /\ Dispatch(Cur(a), {"SPLINE"})
         /\ \E r \in {SplineBranch(Cur(a), ctx)} : Emit(Cur(a), r)
    /\ Advance
    /\ UNCHANGED <<doc, phase, sp>>
    /\ UNCHANGED otherThanFlat

HandleText ==
    /\ HasCall
    /\ \E a \in AddrChoices :
         /\ Dispatch(Cur(a), {"TEXT", "MTEXT"})
         /\ \E r \in {TextBranch(Cur(a), ctx)} : Emit(Cur(a), r)
    /\ Advance
    /\ UNCHANGED <<doc, phase, sp>>
    /\ UNCHANGED otherThanFlat

HandleHatch ==
    /\ HasCall
    /\ \E a \in AddrChoices :
         /\ Dispatch(Cur(a), {"HATCH"})
         /\ \E r \in {HatchBranch(Cur(a), ctx)} : Emit(Cur(a), r)
    /\ Advance
    /\ UNCHANGED <<doc, phase, sp>>
    /\ UNCHANGED otherThanFlat

HandleOther ==
    /\ HasCall
    /\ \E a \in AddrChoices :
         /\ Dispatch(Cur(a), AnyType \ KnownTypes)
         /\ \E r \in {OtherBranch(Cur(a), ctx)} : Emit(Cur(a), r)
    /\ Advance
    /\ UNCHANGED <<doc, phase, sp>>
    /\ UNCHANGED otherThanFlat

\* INSERT: the own row, then the child loop when depth < 10 (a failing
\* virtual_entities() is caught by the loop's try and ends the branch)
HandleInsert ==
    /\ HasCall
    /\ LET c == Cur(<<>>) IN
         /\ ~Raises(c)
         /\ c.e.type = "INSERT"
         /\ LET r == InsertBranch(c, ctx) IN
              /\ rows' = rows \o r.rows
              /\ ctx' = r.ctx
              /\ IF DepthGuard(c.depth) /\ ~c.e.fail
                 THEN /\ stack' = Append(stack, [r.frame EXCEPT !.kids = virtual_entities(c.e)])
                      /\ idx' = idx
                 ELSE Advance
         /\ entered' = entered \cup {c.path}
    /\ UNCHANGED <<doc, phase, sp>>
    /\ UNCHANGED otherThanFlat

\* the child loop of the INSERT on top of the stack is exhausted: it returns
ReturnFromInsert ==
    /\ phase = "walk"
    /\ stack # <<>>
    /\ Top.i > Len(Top.kids)
    /\ PopAdvance
    /\ UNCHANGED <<doc, phase, sp, rows, ctx, entered>>
    /\ UNCHANGED otherThanFlat

\* except Exception: continue   (the walk's handler catches every exception)
WalkCatches == TRUE

\* The pending call raises.  Inside an expansion the nearest handler is the
\* try around the whole child loop of the enclosing INSERT (except Exception:
\* pass): that loop ends and the INSERT returns.  At the top level the walk's
\* handler skips to the next entity.
RaiseInEntity ==
    /\ HasCall
    /\ LET c == Cur(<<>>) IN
         /\ Raises(c)
         /\ entered' = entered \cup {c.path}
    /\ IF stack # <<>>
       THEN PopAdvance /\ phase' = phase
       ELSE IF WalkCatches
            THEN idx' = idx + 1 /\ stack' = stack /\ phase' = phase
            ELSE idx' = idx /\ stack' = stack /\ phase' = "crashed"
    /\ UNCHANGED <<doc, sp, rows, ctx>>
    /\ UNCHANGED otherThanFlat

\* for sp, sp_name in spaces: the next layout
NextSpace ==
    /\ phase = "walk"
    /\ stack = <<>>
    /\ idx > Len(Ents)
    /\ sp < Len(doc.spaces)
    /\ sp' = sp + 1
    /\ idx' = 1
    /\ UNCHANGED <<doc, phase, stack, rows, ctx, entered>>
    /\ UNCHANGED otherThanFlat

\* writer.writerow(r + [mod_name]) for every row, mod_name looked up by r[37]
WrittenCsv(rs, cx) ==
    [exists |-> TRUE,
     rows |-> [k \in 1..Len(rs) |->
                 [row |-> rs[k],
                  name |-> IF rs[k].now \in DOMAIN cx.module_nowid_to_block_name
                           THEN cx.module_nowid_to_block_name[rs[k].now] ELSE ""]]]

\* the walk is over: the file at csv_path is opened for writing, the rows are
\* written out, and export_dxf_to_csv returns
FinishWalk ==
    /\ phase = "walk"
    /\ stack = <<>>
    /\ idx > Len(Ents)
    /\ sp = Len(doc.spaces)
    /\ phase' = "done"
    /\ csv' = WrittenCsv(rows, ctx)
    /\ past' = Append(past, [doc |-> doc, rows |-> rows])
    /\ UNCHANGED <<doc, sp, idx, stack, rows, ctx, entered, err>>
    /\ UNCHANGED otherThanProc

Next ==
    \/ HandlePoint \/ HandleLine \/ HandleLwpolyline \/ HandlePolyline
    \/ HandleFace3d \/ HandleCircle \/ HandleArc \/ HandleEllipse
    \/ HandleSpline \/ HandleText \/ HandleHatch \/ HandleOther
    \/ HandleInsert \/ ReturnFromInsert \/ RaiseInEntity
    \/ NextSpace \/ FinishWalk

----------------------------------------------------------------------------
(* The process around export_dxf_to_csv: a caller (main of dxf2csv.py, the *)
(* steps of main.py and run_pipeline.py) that invokes it on one document   *)
(* after the other and stops at the first failure.                         *)

MaxRuns == 3       \* invocations in one process

\* the documents the process exports; together they reach every branch
RunDocs ==
    { MkDoc(<<Ins("A", L1)>>, <<Ent("LWPOLYLINE", L2, 2), Ins("C", L2)>>),
      MkDoc(<<Ins("B", L2), [Ent("CIRCLE", L1, 0) EXCEPT !.paper = TRUE]>>, <<>>),
      MkDoc(<<Ent("LWPOLYLINE", L1, 2), Hatch(L2, 0, 2, 1)>>, <<>>),
      MkDoc(<<[Ent("LINE", L1, 0) EXCEPT !.bad = TRUE], Ins("S", L2)>>, <<>>) }

\* what ezdxf.readfile raises: IOError for a file that cannot be opened,
\* DXFStructureError for one that cannot be parsed
ReadErrors == {"IOError", "DXFStructureError"}

\* the file at csv_path when readfile raises: nothing has touched it
CsvOpenedFirst(f) == [exists |-> TRUE, rows |-> <<>>]

CsvOnReadError(f) == f

ProcInit ==
    /\ phase = "start"
    /\ csv \in CsvStates
    /\ past = <<>>
    /\ err = ""
    /\ doc = MkDoc(<<>>, <<>>)
    /\ sp = 1
    /\ idx = 1
    /\ stack = <<>>
    /\ rows = <<>>
    /\ ctx = CtxInit
    /\ entered = {}
    /\ snapIn = <<>>
    /\ snapTol = 0
    /\ snapOut1 = [d |-> <<>>, s |-> <<>>]
    /\ snapOut2 = [d |-> <<>>, s |-> <<>>]
    /\ snapPc = "idle"
    /\ verticals = <<>>
    /\ horizontals = <<>>
    /\ msp = <<>>
    /\ grid = [xs |-> <<>>, ys_desc |-> <<>>, rows |-> 0, cols |-> 0,
               vertical_edges |-> {}, horizontal_edges |-> {}]
    /\ contents = <<>>
    /\ matrix = <<>>
    /\ tpc = "idle"
    /\ v_segs = <<>>
    /\ h_segs = <<>>
    /\ written = <<>>
    /\ tableInput = <<>>
    /\ xpc = "idle"
    /\ ppc = "idle"
    /\ plog = <<>>
    /\ pret = NotReturned
    /\ skip_colorize = FALSE

\* doc = ezdxf.readfile(str(dxf_path)); rows = []; ctx = {...}; spaces = [...]
ReadFile ==
    /\ phase = "start"
    /\ doc' \in RunDocs
    /\ rows' = <<>>
    /\ ctx' = CtxInit
    /\ sp' = 1
    /\ idx' = 1
    /\ stack' = <<>>
    /\ entered' = {}
    /\ phase' = "walk"
    /\ UNCHANGED <<csv, past, err>>
    /\ UNCHANGED otherThanProc

\* ezdxf.readfile raises: the exception leaves export_dxf_to_csv at its first
\* statement and reaches the caller, which reports it and stops
ReadFileFails ==
    /\ phase = "start"
    /\ err' \in ReadErrors
    /\ csv' = CsvOnReadError(csv)
    /\ phase' = "failed"
    /\ UNCHANGED <<doc, sp, idx, stack, rows, ctx, entered, past>>
    /\ UNCHANGED otherThanProc

\* the caller goes on to its next export, with a csv_path of its own
CallAgain ==
    /\ phase = "done"
    /\ Len(past) < MaxRuns
    /\ phase' = "start"
    /\ csv' \in CsvStates
    /\ UNCHANGED <<doc, sp, idx, stack, rows, ctx, entered, past, err>>
    /\ UNCHANGED otherThanProc

ProcNext == Next \/ ReadFile \/ ReadFileFails \/ CallAgain

----------------------------------------------------------------------------
(* The snapping specification: a list and a tolerance are drawn, the two   *)
(* routines are applied, and then applied again to their own output.       *)

MaxSnapLen == 3
MaxSnapVal == 5
MaxSnapTol == 2

SnapInit ==
    /\ snapIn \in SeqsUpTo(0..MaxSnapVal, MaxSnapLen)
    /\ snapTol \in 0..MaxSnapTol
    /\ snapOut1 = [d |-> <<>>, s |-> <<>>]
    /\ snapOut2 = [d |-> <<>>, s |-> <<>>]
    /\ snapPc = "start"
    /\ doc = MkDoc(<<>>, <<>>)
    /\ phase = "idle"
    /\ sp = 1
    /\ idx = 1
    /\ stack = <<>>
    /\ rows = <<>>
    /\ ctx = CtxInit
    /\ entered = {}
    /\ verticals = <<>>
    /\ horizontals = <<>>
    /\ msp = <<>>
    /\ grid = [xs |-> <<>>, ys_desc |-> <<>>, rows |-> 0, cols |-> 0,
               vertical_edges |-> {}, horizontal_edges |-> {}]
    /\ contents = <<>>
    /\ matrix = <<>>
    /\ tpc = "idle"
    /\ csv = CsvAbsent
    /\ past = <<>>
    /\ err = ""
    /\ v_segs = <<>>
    /\ h_segs = <<>>
    /\ written = <<>>
    /\ tableInput = <<>>
    /\ xpc = "idle"
    /\ ppc = "idle"
    /\ plog = <<>>
    /\ pret = NotReturned
    /\ skip_colorize = FALSE

SnapOnce ==
    /\ UNCHANGED otherThanSnap
    /\ snapPc = "start"
    /\ snapOut1' = [d |-> dedupe_sorted(snapIn, snapTol),
                    s |-> snap_positions([k \in 1..Len(snapIn) |-> RatOfInt(snapIn[k])], snapTol)]
    /\ snapPc' = "once"
    /\ UNCHANGED <<snapIn, snapTol, snapOut2>>

SnapTwice ==
    /\ UNCHANGED otherThanSnap
    /\ snapPc = "once"
    /\ snapOut2' = [d |-> dedupe_sorted(snapOut1.d, snapTol),
                    s |-> snap_positions(snapOut1.s, snapTol)]
    /\ snapPc' = "twice"
    /\ UNCHANGED <<snapIn, snapTol, snapOut1>>

SnapNext == SnapOnce \/ SnapTwice

SnapSpec == SnapInit /\ [][SnapNext]_vars

----------------------------------------------------------------------------
(* dxf_table_to_csv.py: table reconstruction.  Lengths are in tenths of a  *)
(* drawing unit, so the tolerances of the module are whole numbers.        *)

AXIS_TOL == 5            \* AXIS_TOL = 0.5
MERGE_TOL == 10          \* MERGE_TOL = 1.0
EDGE_COVER_NUM == 6      \* EDGE_COVER_RATIO = 0.6 = EDGE_COVER_NUM / EDGE_COVER_DEN
EDGE_COVER_DEN == 10

\* s[k] of a Python list (indices from 0)
At(s, k) == s[k + 1]

Reverse(s) == [k \in 1..Len(s) |-> s[Len(s) + 1 - k]]

\* overlap_zero: no overlap is ever measured
overlap_zero(a1, a2, b1, b2) == 0

overlap_length(a1, a2, b1, b2) ==
    LET lo == Max2(Min2(a1, a2), Min2(b1, b2))
        hi == Min2(Max2(a1, a2), Max2(b1, b2))
    IN Max2(0, hi - lo)

\* min(range(len(ps)), key=lambda k: abs(ps[k] - v)): the first nearest index
NearestIndex(ps, v) ==
    CHOOSE i \in 0..(Len(ps) - 1) :
        /\ \A k \in 0..(Len(ps) - 1) : Abs(At(ps, i) - v) <= Abs(At(ps, k) - v)
        /\ \A k \in 0..(i - 1) : Abs(At(ps, k) - v) > Abs(At(ps, i) - v)

\* some segment indexed under line i covers the span [lo, hi] well enough:
\* ov >= EDGE_COVER_RATIO * max(AXIS_TOL, span)
EdgePresent(segs, ps, i, lo, hi) ==
    \E k \in 1..Len(segs) :
        /\ NearestIndex(ps, segs[k][1]) = i
        /\ EDGE_COVER_DEN * overlap_length(segs[k][2], segs[k][3], lo, hi)
             >= EDGE_COVER_NUM * Max2(AXIS_TOL, hi - lo)

\* Grid(xs, ys_desc) with the edge sets build_grid fills in
Grid(xs, ys_desc, vs, hs) ==
    LET nrows == Len(ys_desc) - 1
        ncols == Len(xs) - 1
    IN [xs |-> xs, ys_desc |-> ys_desc, rows |-> nrows, cols |-> ncols,
        vertical_edges |->
            {<<i, j>> \in (1..(Len(xs) - 1)) \X (0..(nrows - 1)) :
                EdgePresent(vs, xs, i, At(ys_desc, j + 1), At(ys_desc, j))},
        horizontal_edges |->
            {<<i, j>> \in (0..(ncols - 1)) \X (1..(Len(ys_desc) - 1)) :
                EdgePresent(hs, ys_desc, j, At(xs, i), At(xs, i + 1))}]

\* if not x_values or not y_values: raise RuntimeError
GridRaises(vs, hs) == vs = <<>> \/ hs = <<>>

build_grid(vs, hs) ==
    LET xs == dedupe_sorted([k \in 1..Len(vs) |-> vs[k][1]], MERGE_TOL)
        ys == dedupe_sorted([k \in 1..Len(hs) |-> hs[k][1]], MERGE_TOL)
    IN Grid(xs, Reverse(ys), vs, hs)

\* Grid.rect: <<xmin, xmax, y_bottom, y_top>>
rect(g, col, row) ==
    <<At(g.xs, col), At(g.xs, col + 1), At(g.ys_desc, row + 1), At(g.ys_desc, row)>>

\* the binary searches of point_to_cell
RECURSIVE ColSearch(_, _, _, _)
ColSearch(xs, x, lo, hi) ==
    IF lo < hi - 1
    THEN LET mid == (lo + hi) \div 2
         IN IF x >= At(xs, mid) THEN ColSearch(xs, x, mid, hi) ELSE ColSearch(xs, x, lo, mid)
    ELSE lo

\* if y <= self.ys_desc[mid]: the search moves down the descending list
\* (RowBelowMidAscending compares as for an ascending list)
RowBelowMidAscending(y, v) == y >= v

RowBelowMid(y, v) == y <= v

RECURSIVE RowSearch(_, _, _, _)
RowSearch(ys_desc, y, lo, hi) ==
    IF lo < hi - 1
    THEN LET mid == (lo + hi) \div 2
         IN IF RowBelowMid(y, At(ys_desc, mid)) THEN RowSearch(ys_desc, y, mid, hi)
            ELSE RowSearch(ys_desc, y, lo, mid)
    ELSE lo

\* Grid.point_to_cell: <<col, row>>, or <<>> for None
point_to_cell(g, x, y) ==
    IF x < At(g.xs, 0) - MERGE_TOL \/ x > Last(g.xs) + MERGE_TOL THEN <<>>
    ELSE IF y < Last(g.ys_desc) - MERGE_TOL \/ y > At(g.ys_desc, 0) + MERGE_TOL THEN <<>>
    ELSE << Max2(0, Min2(ColSearch(g.xs, x, 0, Len(g.xs) - 1), g.cols - 1)),
            Max2(0, Min2(RowSearch(g.ys_desc, y, 0, Len(g.ys_desc) - 1), g.rows - 1)) >>

\* the edge keys neighbors_if_no_edge looks up
RightEdgeKeyOwn(col, row) == <<col, row>>

RightEdgeKey(col, row) == <<col + 1, row>>

LeftEdgeKey(col, row) == <<col, row>>

BottomEdgeKeyOwn(col, row) == <<col, row>>

BottomEdgeKey(col, row) == <<col, row + 1>>

TopEdgeKeyAbove(col, row) == <<col, row - 1>>

TopEdgeKey(col, row) == <<col, row>>

\* Grid.neighbors_if_no_edge: right, left, bottom, top, in this order
neighbors_if_no_edge(g, col, row) ==
    (IF col + 1 < g.cols /\ RightEdgeKey(col, row) \notin g.vertical_edges
     THEN << <<col + 1, row>> >> ELSE <<>>)
    \o (IF col - 1 >= 0 /\ LeftEdgeKey(col, row) \notin g.vertical_edges
        THEN << <<col - 1, row>> >> ELSE <<>>)
    \o (IF row + 1 < g.rows /\ BottomEdgeKey(col, row) \notin g.horizontal_edges
        THEN << <<col, row + 1>> >> ELSE <<>>)
    \o (IF row - 1 >= 0 /\ TopEdgeKey(col, row) \notin g.horizontal_edges
        THEN << <<col, row - 1>> >> ELSE <<>>)

\* str.strip() on a string given as a sequence of characters
RECURSIVE LStrip(_)
LStrip(s) == IF s # <<>> /\ Head(s) = " " THEN LStrip(Tail(s)) ELSE s

Strip(s) == Reverse(LStrip(Reverse(LStrip(s))))

\* a TEXT / MTEXT / INSERT of the model space, with the centre entity_center
\* finds for it and the string entity_text reads from it
TextEnt(type, x, y, text) == [type |-> type, x |-> x, y |-> y, text |-> text]

\* the loop of collect_cell_contents: contents.setdefault(cell, []).append(text)
RECURSIVE CollectLoop(_, _, _)
CollectLoop(g, ents, acc) ==
    IF ents = <<>> THEN acc
    ELSE LET e == Head(ents)
             cell == point_to_cell(g, e.x, e.y)
             text == Strip(Strip(e.text))
         IN IF e.type \notin {"TEXT", "MTEXT", "INSERT"} \/ cell = <<>> \/ text = <<>>
            THEN CollectLoop(g, Tail(ents), acc)
            ELSE CollectLoop(g, Tail(ents),
                             IF cell \in DOMAIN acc
                             THEN [acc EXCEPT ![cell] = Append(@, text)]
                             ELSE MapPut(acc, cell, <<text>>))

collect_cell_contents(ents, g) == CollectLoop(g, ents, <<>>)

\* the neighbours not yet visited, in order (each marked as it is queued)
RECURSIVE Unvisited(_, _)
Unvisited(ns, visited) ==
    IF ns = <<>> THEN <<>>
    ELSE IF Head(ns) \in visited THEN Unvisited(Tail(ns), visited)
    ELSE <<Head(ns)>> \o Unvisited(Tail(ns), visited \cup {Head(ns)})

\* while q: the breadth-first search across open edges
RECURSIVE Bfs(_, _, _, _)
Bfs(g, q, visited, cells) ==
    IF q = <<>> THEN [cells |-> cells, visited |-> visited]
    ELSE LET c0 == Head(q)
             new == Unvisited(neighbors_if_no_edge(g, c0[1], c0[2]), visited)
         IN Bfs(g, Tail(q) \o new, visited \cup {new[k] : k \in 1..Len(new)},
                Append(cells, c0))

\* for row in range(grid.rows): for col in range(grid.cols): k is the position
\* of (col, row) in that order
RECURSIVE RegionsLoop(_, _, _, _)
RegionsLoop(g, k, visited, regions) ==
    IF g.cols <= 0 \/ k >= g.rows * g.cols THEN regions
    ELSE LET cell == <<k % g.cols, k \div g.cols>>
         IN IF cell \in visited THEN RegionsLoop(g, k + 1, visited, regions)
            ELSE LET r == Bfs(g, <<cell>>, visited \cup {cell}, <<>>)
                 IN RegionsLoop(g, k + 1, r.visited, Append(regions, r.cells))

build_regions(g) == RegionsLoop(g, 0, {}, <<>>)

\* texts.extend(contents.get(c, [])) over the cells of a region
RECURSIVE RegionTexts(_, _)
RegionTexts(cells, cont) ==
    IF cells = <<>> THEN <<>>
    ELSE (IF Head(cells) \in DOMAIN cont THEN cont[Head(cells)] ELSE <<>>)
         \o RegionTexts(Tail(cells), cont)

\* list(dict.fromkeys(ts)): first occurrences, order kept (FromKeysAll
\* keeps the repetitions)
FromKeysAll(ts, seen) == ts

RECURSIVE FromKeys(_, _)
FromKeys(ts, seen) ==
    IF ts = <<>> THEN <<>>
    ELSE IF Head(ts) \in seen THEN FromKeys(Tail(ts), seen)
    ELSE <<Head(ts)>> \o FromKeys(Tail(ts), seen \cup {Head(ts)})

\* " ".join(ts)
RECURSIVE Join(_)
Join(ts) ==
    IF ts = <<>> THEN <<>>
    ELSE IF Len(ts) = 1 THEN ts[1]
    ELSE (ts[1] \o <<" ">>) \o Join(Tail(ts))

\* joined = " ".join(dict.fromkeys([t for t in (s.strip() for s in texts) if t]))
Joined(cells, cont) ==
    LET texts == RegionTexts(cells, cont)
        stripped == [k \in 1..Len(texts) |-> Strip(texts[k])]
    IN Join(FromKeys(SelectSeq(stripped, LAMBDA t : t # <<>>), {}))

\* the matrix write_csv writes: matrix[row][col] = region_content.get((col, row), "")
write_csv(g, cont) ==
    LET regions == build_regions(g)
        content(col, row) ==
            IF \E k \in 1..Len(regions) :
                  \E n \in 1..Len(regions[k]) : regions[k][n] = <<col, row>>
            THEN LET k == CHOOSE k \in 1..Len(regions) :
                             \E n \in 1..Len(regions[k]) : regions[k][n] = <<col, row>>
                 IN Joined(regions[k], cont)
            ELSE <<>>
    IN [r \in 1..Max2(g.rows, 0) |-> [c \in 1..Max2(g.cols, 0) |-> content(c - 1, r - 1)]]

----------------------------------------------------------------------------
(* The inputs of the table specification: rule segments on a few positions *)
(* (two of them closer than MERGE_TOL), whole and partial, and texts.      *)

MaxV == 3           \* vertical segments
MaxH == 3           \* horizontal segments
MaxTexts == 4       \* text entities

\* verticals <<x, y1, y2>>, as collect_grid_lines returns them
VPool == << <<0, 0, 40>>, <<8, 0, 40>>, <<20, 0, 40>>, <<20, 0, 20>>, <<40, 0, 40>> >>

\* horizontals <<y, x1, x2>>
HPool == << <<0, 0, 40>>, <<20, 0, 40>>, <<20, 0, 20>>, <<40, 0, 40>> >>

TextPool ==
    << TextEnt("TEXT", 10, 30, <<"A">>),
       TextEnt("MTEXT", 30, 30, <<"B">>),
       TextEnt("TEXT", 10, 10, <<" ", "A", " ">>),
       TextEnt("INSERT", 30, 10, <<"A">>),
       TextEnt("TEXT", 4, 30, <<"B">>),
       TextEnt("TEXT", 4, 10, <<" ", " ">>),
       TextEnt("MTEXT", 12, 28, <<"B">>),
       TextEnt("TEXT", 45, 30, <<"Z">>) >>

NoGrid == [xs |-> <<>>, ys_desc |-> <<>>, rows |-> 0, cols |-> 0,
           vertical_edges |-> {}, horizontal_edges |-> {}]

TableInit ==
    /\ verticals \in SubSeqsOf(VPool, MaxV)
    /\ horizontals \in SubSeqsOf(HPool, MaxH)
    /\ msp = <<>>
    /\ grid = NoGrid
    /\ contents = <<>>
    /\ matrix = <<>>
    /\ tpc = "start"
    /\ snapIn = <<>>
    /\ snapTol = 0
    /\ snapOut1 = [d |-> <<>>, s |-> <<>>]
    /\ snapOut2 = [d |-> <<>>, s |-> <<>>]
    /\ snapPc = "idle"
    /\ doc = MkDoc(<<>>, <<>>)
    /\ phase = "idle"
    /\ sp = 1
    /\ idx = 1
    /\ stack = <<>>
    /\ rows = <<>>
    /\ ctx = CtxInit
    /\ entered = {}
    /\ csv = CsvAbsent
    /\ past = <<>>
    /\ err = ""
    /\ v_segs = <<>>
    /\ h_segs = <<>>
    /\ written = <<>>
    /\ tableInput = <<>>
    /\ xpc = "idle"
    /\ ppc = "idle"
    /\ plog = <<>>
    /\ pret = NotReturned
    /\ skip_colorize = FALSE

\* grid = build_grid(verticals, horizontals)
BuildGrid ==
    /\ tpc = "start"
    /\ ~GridRaises(verticals, horizontals)
    /\ grid' = build_grid(verticals, horizontals)
    /\ tpc' = "grid"
    /\ UNCHANGED <<verticals, horizontals, msp, contents, matrix>>
    /\ UNCHANGED otherThanTable

\* build_grid raises RuntimeError: main() ends with the exception
BuildGridRaises ==
    /\ tpc = "start"
    /\ GridRaises(verticals, horizontals)
    /\ tpc' = "error"
    /\ UNCHANGED <<verticals, horizontals, msp, grid, contents, matrix>>
    /\ UNCHANGED otherThanTable

\* contents = collect_cell_contents(msp, grid), msp holding some texts
CollectCellContents ==
    /\ tpc = "grid"
    /\ \E ents \in SubSeqsOf(TextPool, MaxTexts) :
         /\ msp' = ents
         /\ contents' = collect_cell_contents(ents, grid)
    /\ tpc' = "contents"
    /\ UNCHANGED <<verticals, horizontals, grid, matrix>>
    /\ UNCHANGED otherThanTable

\* write_csv(grid, contents, OUTPUT_CSV)
WriteCsv ==
    /\ tpc = "contents"
    /\ matrix' = write_csv(grid, contents)
    /\ tpc' = "written"
    /\ UNCHANGED <<verticals, horizontals, msp, grid, contents>>
    /\ UNCHANGED otherThanTable

TableNext == BuildGrid \/ BuildGridRaises \/ CollectCellContents \/ WriteCsv

TableSpec == TableInit /\ [][TableNext]_vars

----------------------------------------------------------------------------
(* extract_dxf_table.py: isolating the table regions of a layout.  Lengths  *)
(* are integers in tenths of a drawing unit; snapped positions are          *)
(* rationals.                                                               *)

GRID_SNAP_TOL == 5        \* 0.5
INTERSECT_TOL == 20       \* tol = 2.0 of _segments_intersect / _cluster_segments

RatSub(a, b) == Rat(a[1] * b[2] - b[1] * a[2], a[2] * b[2])

RatMul(a, b) == Rat(a[1] * b[1], a[2] * b[2])

RatAbs(a) == <<Abs(a[1]), a[2]>>

\* the indices in S, ascending
RECURSIVE IndexSeq(_)
IndexSeq(S) ==
    IF S = {} THEN <<>>
    ELSE LET m == CHOOSE x \in S : \A y \in S : x <= y
         IN <<m>> \o IndexSeq(S \ {m})

_segments_intersect(v, h, tol) ==
    /\ ~(v[1] < Min2(h[2], h[3]) - tol \/ v[1] > Max2(h[2], h[3]) + tol)
    /\ ~(h[1] < Min2(v[2], v[3]) - tol \/ h[1] > Max2(v[2], v[3]) + tol)

\* v_to_h[i]
VToH(vs, hs, i) == {j \in 1..Len(hs) : _segments_intersect(vs[i], hs[j], INTERSECT_TOL)}

\* h_to_v[j]
HToV(vs, hs, j) == {i \in 1..Len(vs) : _segments_intersect(vs[i], hs[j], INTERSECT_TOL)}

\* the breadth-first search from a vertical: the segments reached
RECURSIVE Component(_, _, _, _)
Component(vs, hs, cv, ch) ==
    LET ch2 == ch \cup UNION {VToH(vs, hs, i) : i \in cv}
        cv2 == cv \cup UNION {HToV(vs, hs, j) : j \in ch2}
    IN IF cv2 = cv /\ ch2 = ch THEN [v |-> cv, h |-> ch]
       ELSE Component(vs, hs, cv2, ch2)

\* for i in range(nV): a component is started from every vertical that is
\* not yet visited and meets a horizontal
StartsComponentRevisiting(vs, hs, i, visited_v) == VToH(vs, hs, i) # {}

StartsComponent(vs, hs, i, visited_v) == i \notin visited_v /\ VToH(vs, hs, i) # {}

RECURSIVE ClusterLoop(_, _, _, _, _)
ClusterLoop(vs, hs, i, visited_v, clusters) ==
    IF i > Len(vs) THEN clusters
    ELSE IF ~StartsComponent(vs, hs, i, visited_v)
    THEN ClusterLoop(vs, hs, i + 1, visited_v, clusters)
    ELSE LET c == Component(vs, hs, {i}, {})
         IN ClusterLoop(vs, hs, i + 1, visited_v \cup c.v, Append(clusters, c))

_cluster_segments(vs, hs) ==
    IF vs = <<>> \/ hs = <<>> THEN <<>>
    ELSE ClusterLoop(vs, hs, 1, {}, <<>>)

\* vs = [v_segments[i] for i in comp_v]; the positions of these segments
PositionsOf(segs, comp) ==
    LET ix == IndexSeq(comp) IN [k \in 1..Len(ix) |-> RatOfInt(segs[ix[k]][1])]

NoGridLines == [xs |-> <<>>, ys |-> <<>>]

\* if len(xs) < 3 or len(ys) < 3: return [], []
MinGridLines == 3

_grid_from_segments(xvals, yvals) ==
    LET xs == snap_positions(xvals, GRID_SNAP_TOL)
        ys == snap_positions(yvals, GRID_SNAP_TOL)
    IN IF Len(xs) < MinGridLines \/ Len(ys) < MinGridLines THEN NoGridLines
       ELSE [xs |-> xs, ys |-> ys]

\* the grid of one cluster
ClusterGrid(vs, hs, c) == _grid_from_segments(PositionsOf(vs, c.v), PositionsOf(hs, c.h))

\* min(xs), min(ys), max(xs), max(ys) of sorted lists
_bbox_from_grid(g) == <<g.xs[1], g.ys[1], Last(g.xs), Last(g.ys)>>

\* abs((x2 - x1) * (y2 - y1))
BBoxArea(r) == RatAbs(RatMul(RatSub(r[3], r[1]), RatSub(r[4], r[2])))

NoBest == [found |-> FALSE, grid |-> NoGridLines, area |-> <<0, 1>>]

RECURSIVE BestLoop(_, _, _, _, _)
BestLoop(vs, hs, clusters, k, best) ==
    IF k > Len(clusters) THEN best
    ELSE LET g == ClusterGrid(vs, hs, clusters[k])
         IN IF Len(g.xs) < MinGridLines \/ Len(g.ys) < MinGridLines
            THEN BestLoop(vs, hs, clusters, k + 1, best)
            ELSE LET area == BBoxArea(_bbox_from_grid(g))
                 IN IF ~RatLess(<<0, 1>>, area)
                    THEN BestLoop(vs, hs, clusters, k + 1, best)
                    ELSE IF ~best.found \/ RatLess(area, best.area)
                    THEN BestLoop(vs, hs, clusters, k + 1,
                                  [found |-> TRUE, grid |-> g, area |-> area])
                    ELSE BestLoop(vs, hs, clusters, k + 1, best)

_choose_best_cluster(vs, hs) == BestLoop(vs, hs, _cluster_segments(vs, hs), 1, NoBest).grid

\* the loop of export_tables_structured over the clusters of a layout:
\* idx += 1 and one clip table_<layout>_grid_<idx>.dxf per cluster that passes
RECURSIVE ExportLoop(_, _, _, _, _)
ExportLoop(vs, hs, clusters, k, out) ==
    IF k > Len(clusters) THEN out
    ELSE LET g == ClusterGrid(vs, hs, clusters[k])
         IN IF Len(g.xs) < MinGridLines \/ Len(g.ys) < MinGridLines
            THEN ExportLoop(vs, hs, clusters, k + 1, out)
            ELSE ExportLoop(vs, hs, clusters, k + 1, Append(out, _bbox_from_grid(g)))

export_tables_structured(vs, hs) ==
    ExportLoop(vs, hs, _cluster_segments(vs, hs), 1, <<>>)

MaxBoxes == 3      \* ruled boxes drawn in the layout

\* a ruled box: verticals at xs spanning the ys, horizontals at ys spanning the xs
Box(xs, ys) == [xs |-> xs, ys |-> ys]

\* candidates, pairwise further apart than INTERSECT_TOL; the last one has
\* two verticals only and fails the size check
BoxPool ==
    << Box(<<0, 100, 200>>, <<0, 100, 200>>),
       Box(<<300, 330, 360>>, <<0, 30, 60>>),
       Box(<<0, 50, 100>>, <<300, 350, 400>>),
       Box(<<300, 303, 340, 380>>, <<300, 340, 380>>),
       Box(<<500, 560>>, <<0, 30, 60>>) >>

BoxVerticals(b) == [k \in 1..Len(b.xs) |-> <<b.xs[k], b.ys[1], Last(b.ys)>>]

BoxHorizontals(b) == [k \in 1..Len(b.ys) |-> <<b.ys[k], b.xs[1], Last(b.xs)>>]

\* the boxes of a layout, in any order and without repetition
RECURSIVE BoxSeqs(_)
BoxSeqs(n) ==
    IF n = 0 THEN {<<>>}
    ELSE LET shorter == BoxSeqs(n - 1)
             longest == {u \in shorter : Len(u) = n - 1}
         IN shorter \cup
            UNION { {Append(u, k) : k \in (1..Len(BoxPool)) \ {u[a] : a \in 1..Len(u)}} :
                    u \in longest }

RECURSIVE Flatten(_)
Flatten(ss) == IF ss = <<>> THEN <<>> ELSE Head(ss) \o Flatten(Tail(ss))

\* segments drawn outside the boxes: a vertical that meets nothing, a
\* horizontal that joins the first box to the second, and a horizontal that
\* meets nothing
LooseVerticals == << <<700, 0, 50>> >>

LooseHorizontals == << <<50, 200, 300>>, <<900, 700, 750>> >>

ExtractInit ==
    /\ \E t \in BoxSeqs(MaxBoxes) :
       \E lv \in SubSeqsOf(LooseVerticals, Len(LooseVerticals)) :
       \E lh \in SubSeqsOf(LooseHorizontals, Len(LooseHorizontals)) :
         /\ v_segs = lv \o Flatten([k \in 1..Len(t) |-> BoxVerticals(BoxPool[t[k]])])
         /\ h_segs = Flatten([k \in 1..Len(t) |-> BoxHorizontals(BoxPool[t[k]])]) \o lh
    /\ written = <<>>
    /\ tableInput = <<>>
    /\ xpc = "start"
    /\ ppc = "idle"
    /\ plog = <<>>
    /\ pret = NotReturned
    /\ skip_colorize = FALSE
    /\ snapIn = <<>>
    /\ snapTol = 0
    /\ snapOut1 = [d |-> <<>>, s |-> <<>>]
    /\ snapOut2 = [d |-> <<>>, s |-> <<>>]
    /\ snapPc = "idle"
    /\ doc = MkDoc(<<>>, <<>>)
    /\ phase = "idle"
    /\ sp = 1
    /\ idx = 1
    /\ stack = <<>>
    /\ rows = <<>>
    /\ ctx = CtxInit
    /\ entered = {}
    /\ verticals = <<>>
    /\ horizontals = <<>>
    /\ msp = <<>>
    /\ grid = NoGrid
    /\ contents = <<>>
    /\ matrix = <<>>
    /\ tpc = "idle"
    /\ csv = CsvAbsent
    /\ past = <<>>
    /\ err = ""

\* extract_dxf_table.py main: table_dxfs = export_tables_structured(doc, tables_dir)
ExportTablesStructured ==
    /\ xpc = "start"
    /\ written' = export_tables_structured(v_segs, h_segs)
    /\ xpc' = "exported"
    /\ UNCHANGED <<v_segs, h_segs, tableInput>>
    /\ UNCHANGED otherThanExtract

\* dxf_table_to_csv.py main: doc = ezdxf.readfile(str(INPUT_DXF)), the clip grid_1
ReadGrid1 ==
    /\ xpc = "exported"
    /\ written # <<>>
    /\ tableInput' = written[1]
    /\ xpc' = "read"
    /\ UNCHANGED <<v_segs, h_segs, written>>
    /\ UNCHANGED otherThanExtract

\* if not INPUT_DXF.exists(): raise SystemExit
Grid1Missing ==
    /\ xpc = "exported"
    /\ written = <<>>
    /\ xpc' = "missing"
    /\ UNCHANGED <<v_segs, h_segs, written, tableInput>>
    /\ UNCHANGED otherThanExtract

ExtractNext == ExportTablesStructured \/ ReadGrid1 \/ Grid1Missing

ExtractSpec == ExtractInit /\ [][ExtractNext]_vars

----------------------------------------------------------------------------
(* main.py: the end-to-end pipeline.  Each step is what main calls inside   *)
(* one try block together with the handlers of that block; plog records the *)
(* calls made and how each of them ended.                                   *)

Returned(code) == [kind |-> "returned", code |-> code]

\* an exception left main (int(e.code) failed inside the SystemExit handler)
Raised == [kind |-> "raised", code |-> 0]

\* how a call of a step ends: "ok" (returned None), "skip" (output exists,
\* call skipped), "exc" (raised an Exception), "exit" (sys.exit(code)),
\* "exitmsg" (raise SystemExit(<message>)), "ret" (returned code),
\* "missing" (main's own existence check failed)
Out(kind, code) == [kind |-> kind, code |-> code]

\* the value meaning that main goes on to its next step
GoesOn == [kind |-> "running", code |-> 0]

\* except Exception as exc: print(...); return 1
OnException == Returned(1)

\* except SystemExit as e: if int(e.code) != 0: return int(e.code)
OnSystemExit(o) ==
    IF o.kind = "exitmsg" THEN Raised
    ELSE IF o.code # 0 THEN Returned(o.code) ELSE GoesOn

\* ret = step(); if ret != 0: return ret
OnReturn(o) == IF o.code # 0 THEN Returned(o.code) ELSE GoesOn

\* if an1 not in (0, None) or an2 not in (0, None): print("[FATAL] ...")
OnParamsReturn(o) == GoesOn

\* what main does after the call of step name ended with o
Handler(name, o) ==
    CASE o.kind \in {"ok", "skip"} -> GoesOn
      [] o.kind = "exc" -> OnException
      [] o.kind \in {"exit", "exitmsg"} -> OnSystemExit(o)
      [] o.kind = "ret" /\ name \in {"uplift_params", "compression_params"} -> OnParamsReturn(o)
      [] o.kind = "ret" /\ name \notin {"uplift_params", "compression_params"} -> OnReturn(o)
      [] o.kind = "missing" -> Returned(o.code)

\* one try block of main with a single call
RunStep(name, outs, next) ==
    /\ \E o \in outs :
         /\ plog' = Append(plog, [step |-> name, out |-> o])
         /\ IF Handler(name, o) = GoesOn
            THEN ppc' = next /\ pret' = pret
            ELSE ppc' = "end" /\ pret' = Handler(name, o)
    /\ UNCHANGED skip_colorize
    /\ UNCHANGED otherThanPipe

\* one try block of main with two calls in a row
RunTwo(name1, outs1, name2, outs2, next, last) ==
    /\ \E o1 \in outs1 :
         IF Handler(name1, o1) # GoesOn
         THEN /\ plog' = Append(plog, [step |-> name1, out |-> o1])
              /\ ppc' = "end" /\ pret' = Handler(name1, o1)
         ELSE \E o2 \in outs2 :
                /\ plog' = plog \o << [step |-> name1, out |-> o1],
                                      [step |-> name2, out |-> o2] >>
                /\ IF Handler(name2, o2) # GoesOn
                   THEN ppc' = "end" /\ pret' = Handler(name2, o2)
                   ELSE ppc' = next /\ pret' = last
    /\ UNCHANGED skip_colorize
    /\ UNCHANGED otherThanPipe

\* if not pile_dwg_path.exists(): return 2 (and the same for uplift_dwg_path)
CheckInputs ==
    /\ ppc = "inputs"
    /\ RunStep("inputs", {Out("ok", 0), Out("missing", 2)}, "convert")

\* convert_dwg_to_dxf for the two drawings, each skipped if its DXF exists
ConvertDwgs ==
    /\ ppc = "convert"
    /\ RunTwo("convert_pile", {Out("skip", 0), Out("ok", 0), Out("exc", 0)},
              "convert_uplift", {Out("skip", 0), Out("ok", 0), Out("exc", 0)},
              "extract", pret)

\* extract_dxf_table.main(): sys.exit(1) when the input DXF is missing
ExtractTables ==
    /\ ppc = "extract"
    /\ RunStep("extract", {Out("ok", 0), Out("exit", 1), Out("exc", 0)}, "table_csv")

\* dxf_table_to_csv.main(), skipped if the CSV exists; it raises
\* SystemExit(<message>) when INPUT_DXF is missing
TableToCsv ==
    /\ ppc = "table_csv"
    /\ RunStep("table_csv", {Out("skip", 0), Out("ok", 0), Out("exitmsg", 0), Out("exc", 0)},
            "legend")

\* build_legend_to_row_index(...) and the JSON written from it
BuildLegend ==
    /\ ppc = "legend"
    /\ RunStep("legend", {Out("ok", 0), Out("exc", 0)}, "uplift_csv")

\* export_dxf_to_csv(uplift_dxf, uplift_csv), skipped if the CSV exists
ExportUpliftCsv ==
    /\ ppc = "uplift_csv"
    /\ RunStep("uplift_csv", {Out("skip", 0), Out("ok", 0), Out("exc", 0)}, "annotate_union")

\* annotate_union.main(): sys.exit(1), sys.exit(2), sys.exit(3)
AnnotateUnion ==
    /\ ppc = "annotate_union"
    /\ RunStep("annotate_union",
            {Out("ok", 0), Out("exit", 1), Out("exit", 2), Out("exit", 3), Out("exc", 0)},
            "annot_csv")

\* export_dxf_to_csv(annot_dxf_in_outputs, annot_csv); return 1 if the DXF is missing
ExportAnnotCsv ==
    /\ ppc = "annot_csv"
    /\ RunStep("annot_csv", {Out("ok", 0), Out("missing", 1), Out("exc", 0)}, "uplift_force")

\* annotate_uplift_force.main()
AnnotateUpliftForce ==
    /\ ppc = "uplift_force"
    /\ RunStep("uplift_force", {Out("ok", 0), Out("exc", 0)}, "pile_types")

\* annotate_pile_types.main(): sys.exit(1), sys.exit(2), sys.exit(3)
AnnotatePileTypes ==
    /\ ppc = "pile_types"
    /\ RunStep("pile_types",
            {Out("ok", 0), Out("exit", 1), Out("exit", 2), Out("exit", 3), Out("exc", 0)},
            "zoned")

\* ret = analyze_zoned_uplift_piles.main([]); if not args.skip_colorize the
\* colouring step follows
AnalyzeZoned ==
    /\ ppc = "zoned"
    /\ RunStep("zoned", {Out("ret", 0), Out("ret", 1), Out("ret", 2), Out("exc", 0)},
            IF skip_colorize THEN "params" ELSE "colorize")

\* ret2 = colorize_piles_by_ratio.process()
Colorize ==
    /\ ppc = "colorize"
    /\ RunStep("colorize", {Out("ret", 0), Out("ret", 2), Out("exc", 0)}, "params")

\* an1 = analyze_uplift_piles.main([]); an2 = analyze_compression_piles.main([]);
\* a non-zero an1 or an2 is only printed, and main goes on to return 0
ComputeParams ==
    /\ ppc = "params"
    /\ RunTwo("uplift_params", {Out("ret", 0), Out("ret", 1), Out("ret", 2), Out("exc", 0)},
              "compression_params", {Out("ret", 0), Out("ret", 1), Out("ret", 2), Out("exc", 0)},
              "end", Returned(0))

PipeInit ==
    /\ ppc = "inputs"
    /\ plog = <<>>
    /\ pret = NotReturned
    /\ skip_colorize \in BOOLEAN
    /\ v_segs = <<>>
    /\ h_segs = <<>>
    /\ written = <<>>
    /\ tableInput = <<>>
    /\ xpc = "idle"
    /\ snapIn = <<>>
    /\ snapTol = 0
    /\ snapOut1 = [d |-> <<>>, s |-> <<>>]
    /\ snapOut2 = [d |-> <<>>, s |-> <<>>]
    /\ snapPc = "idle"
    /\ doc = MkDoc(<<>>, <<>>)
    /\ phase = "idle"
    /\ sp = 1
    /\ idx = 1
    /\ stack = <<>>
    /\ rows = <<>>
    /\ ctx = CtxInit
    /\ entered = {}
    /\ verticals = <<>>
    /\ horizontals = <<>>
    /\ msp = <<>>
    /\ grid = NoGrid
    /\ contents = <<>>
    /\ matrix = <<>>
    /\ tpc = "idle"
    /\ csv = CsvAbsent
    /\ past = <<>>
    /\ err = ""

PipeNext ==
    \/ CheckInputs
    \/ ConvertDwgs
    \/ ExtractTables
    \/ TableToCsv
    \/ BuildLegend
    \/ ExportUpliftCsv
    \/ AnnotateUnion
    \/ ExportAnnotCsv
    \/ AnnotateUpliftForce
    \/ AnnotatePileTypes
    \/ AnalyzeZoned
    \/ Colorize
    \/ ComputeParams

PipeSpec == PipeInit /\ [][PipeNext]_vars


----------------------------------------------------------------------------
(* The flattening specification: one run of export_dxf_to_csv on a         *)
(* document drawn from Docs.  The program is sequential and always takes   *)
(* its next step, which is what the fairness of FairSpec states.           *)

Spec == FlatInit /\ [][Next]_vars

FairSpec == Spec /\ WF_vars(Next)

\* The process specification: up to MaxRuns invocations of export_dxf_to_csv
\* in one process, on documents drawn from RunDocs.
ProcSpec == ProcInit /\ [][ProcNext]_vars

----------------------------------------------------------------------------
(* C8: coordinate snapping is idempotent: dedupe_sorted and _snap_positions *)
(* applied with tolerance t to their own output (same t) return that output *)
(* unchanged.                                                               *)
Thm_C8_SnapIdempotent ==
    snapPc = "twice" => /\ snapOut2.d = snapOut1.d
                        /\ snapOut2.s = snapOut1.s

\* A run in which both routines really merged values on the first pass.
Wit_C8_SnapMerged ==
    /\ snapPc = "twice"
    /\ Len(snapIn) = 3
    /\ Len(snapOut1.d) = 2
    /\ Len(snapOut1.s) = 2
    /\ \E k \in 1..2 : snapOut1.s[k][2] = 2

----------------------------------------------------------------------------
(* Vocabulary of the flattening claims.  A row's src is the path of the    *)
(* call that emitted it: <<layout, index>> for an entity of a layout, one  *)
(* more component per level of INSERT expansion.                           *)

\* the entity a path names
RECURSIVE EntAt(_)
EntAt(p) ==
    IF Len(p) = 2 THEN doc.spaces[p[1]].ents[p[2]]
    ELSE virtual_entities(EntAt(SubSeq(p, 1, Len(p) - 1)))[p[Len(p)]]

IsPrefix(p, q) == Len(p) <= Len(q) /\ SubSeq(q, 1, Len(p)) = p

\* the top-level entity a row is attributable to
TopOf(r) == SubSeq(r.src, 1, 2)

\* the paths of the entities of the layouts
TopPaths == {<<s, k>> : s \in 1..Len(doc.spaces), k \in 1..MaxTop + 1} \cap
            {p \in Seq(Nat) : Len(p) = 2 /\ p[2] <= Len(doc.spaces[p[1]].ents)}

RowIdx == 1..Len(rows)

----------------------------------------------------------------------------
(* C1: for every INSERT that is flattened, every row emitted for its       *)
(* expanded children, at any nesting depth, of any entity type and on any  *)
(* layer, carries the same ModuleId as the INSERT's own row.               *)
Orig_C1_ChildrenShareModuleId ==
    \A i \in RowIdx : \A j \in RowIdx :
        (/\ rows[i].part = "insert"
         /\ IsPrefix(rows[i].src, rows[j].src)
         /\ rows[j].src # rows[i].src)
        => rows[j].mid = rows[i].mid

----------------------------------------------------------------------------
(* C2: every entity of the layouts, of a supported type or not, leaves at   *)
(* least one row: when the walk is over, the top-level entities with a row  *)
(* are as many as the top-level entities walked.                            *)
Orig_C2_EveryEntityLeavesRow ==
    phase = "done" =>
        Cardinality({TopOf(rows[i]) : i \in RowIdx}) = Cardinality(TopPaths)

----------------------------------------------------------------------------
(* C3: flattening a document in which a block contains an INSERT of itself  *)
(* terminates: the expansion never goes deeper than the depth bound, no     *)
(* exception escapes the walk, and the walk reaches its end.                *)

\* the block is directly self-referential
SelfReferential(name) ==
    \E k \in 1..Len(Blocks(doc)[name]) :
        Blocks(doc)[name][k].type = "INSERT" /\ Blocks(doc)[name][k].name = name

\* a layout of the document holds an instance of a self-referential block
HasSelfReference ==
    \E p \in TopPaths : EntAt(p).type = "INSERT" /\ SelfReferential(EntAt(p).name)

Thm_C3_SelfReferenceTerminates ==
    /\ [](HasSelfReference =>
            /\ Len(stack) <= MaxDepth
            /\ \A i \in RowIdx : Len(rows[i].src) - 2 <= MaxDepth
            /\ phase # "crashed")
    /\ ((HasSelfReference /\ phase = "walk") ~> (phase = "done"))

\* The self-referential block was expanded down to the bound: its instance
\* left MaxDepth + 1 INSERT rows, the deepest at depth MaxDepth, and the walk ended.
Wit_C3_ExpandedToBound ==
    /\ phase = "done"
    /\ \E p \in TopPaths :
         /\ EntAt(p).type = "INSERT" /\ SelfReferential(EntAt(p).name)
         /\ Cardinality({i \in RowIdx : rows[i].part = "insert" /\ TopOf(rows[i]) = p})
              = MaxDepth + 1
         /\ \E i \in RowIdx : TopOf(rows[i]) = p /\ Len(rows[i].src) - 2 = MaxDepth

----------------------------------------------------------------------------
(* C4: an exception raised while flattening one entity skips only that      *)
(* entity: when the walk is over every entity of every layout has been      *)
(* handed to handle_entity, and so has every child of every INSERT whose    *)
(* expansion was entered, the siblings of a raising child included.         *)

\* the call at path p expands its block: an INSERT above the depth bound
\* whose own accessors and virtual_entities() work
Expands(p) ==
    /\ EntAt(p).type = "INSERT"
    /\ ~EntAt(p).bad /\ ~EntAt(p).fail
    /\ Len(p) - 2 < MaxDepth

Orig_C4_OnlyRaisingEntitySkipped ==
    phase = "done" =>
        /\ TopPaths \subseteq entered
        /\ \A p \in entered :
             Expands(p) =>
               \A k \in 1..Len(virtual_entities(EntAt(p))) : Append(p, k) \in entered

----------------------------------------------------------------------------
(* C9: group ids are scoped per (layer, raw key): two requests to           *)
(* _assign_group_numeric_id that differ in layer or in raw key get          *)
(* different ids, so polylines on different layers never share a GroupId.   *)
Thm_C9_GroupIdPerLayerAndKey ==
    /\ \A q1 \in ctx.greq : \A q2 \in ctx.greq :
         (q1.layer # q2.layer \/ q1.raw # q2.raw) => q1.id # q2.id
    /\ \A i \in RowIdx : \A j \in RowIdx :
         (/\ rows[i].sub \in {"LWPOLYLINE", "POLYLINE"}
          /\ rows[j].sub \in {"LWPOLYLINE", "POLYLINE"}
          /\ rows[i].layer # rows[j].layer)
         => rows[i].gid # rows[j].gid

\* Two polylines on different layers were given the same raw key (the same
\* module key, address and child index) and both left vertex rows.
Wit_C9_SameKeyTwoLayers ==
    /\ \E q1 \in ctx.greq : \E q2 \in ctx.greq :
         q1.raw = q2.raw /\ q1.layer # q2.layer
    /\ \E i \in RowIdx : \E j \in RowIdx :
         /\ rows[i].sub = "LWPOLYLINE" /\ rows[j].sub = "LWPOLYLINE"
         /\ rows[i].layer = L1 /\ rows[j].layer = L2
         /\ rows[i].vidx = rows[j].vidx

----------------------------------------------------------------------------
(* C10: within one run the ModuleId values of the rows appear in strictly   *)
(* increasing order of first occurrence and form 1..k without gaps, and no  *)
(* ModuleId value is carried by rows of two different top-level entities.   *)

\* the ModuleId values of the rows before row i
MidsBefore(i) == {rows[j].mid : j \in 1..(i - 1)} \ {NoId}

Thm_C10_ModuleIdsDenseIncreasing ==
    /\ \A i \in RowIdx :
         rows[i].mid # NoId =>
            \/ rows[i].mid \in MidsBefore(i)
            \/ /\ rows[i].mid = Cardinality(MidsBefore(i)) + 1
               /\ \A m \in MidsBefore(i) : m < rows[i].mid
    /\ \A i \in RowIdx : \A j \in RowIdx :
         (rows[i].mid # NoId /\ rows[i].mid = rows[j].mid) => TopOf(rows[i]) = TopOf(rows[j])

\* A finished run whose rows carry at least three ModuleId values, taken
\* from two different top-level entities.
Wit_C10_SeveralModules ==
    /\ phase = "done"
    /\ Cardinality({rows[i].mid : i \in RowIdx} \ {NoId}) >= 3
    /\ \E i \in RowIdx : \E j \in RowIdx :
         /\ rows[i].mid # NoId /\ rows[j].mid # NoId
         /\ TopOf(rows[i]) # TopOf(rows[j])

----------------------------------------------------------------------------
(* Vocabulary of the table claims.  Cells are <<col, row>>, both from 0,    *)
(* row 0 the top row; matrix[row + 1][col + 1] is the CSV cell of it.       *)

\* the elements of a set of numbers, ascending
SortedSeqOf(S) ==
    CHOOSE q \in [1..Cardinality(S) -> S] : \A i \in 1..(Cardinality(S) - 1) : q[i] < q[i + 1]

\* the rule positions of the input, and what snapping leaves of them
XValues == [k \in 1..Len(verticals) |-> verticals[k][1]]

YValues == [k \in 1..Len(horizontals) |-> horizontals[k][1]]

Cells(g) == (0..(g.cols - 1)) \X (0..(g.rows - 1))

\* the point of entity e lies strictly inside the rectangle <<xmin, xmax, yb, yt>>
InsideRect(e, rc) == rc[1] < e.x /\ e.x < rc[2] /\ rc[3] < e.y /\ e.y < rc[4]

\* two side-by-side or stacked cells whose shared boundary carries no edge
OpenBetween(g, a, b) ==
    \/ a[2] = b[2] /\ b[1] = a[1] + 1 /\ <<b[1], a[2]>> \notin g.vertical_edges
    \/ a[2] = b[2] /\ a[1] = b[1] + 1 /\ <<a[1], a[2]>> \notin g.vertical_edges
    \/ a[1] = b[1] /\ b[2] = a[2] + 1 /\ <<a[1], b[2]>> \notin g.horizontal_edges
    \/ a[1] = b[1] /\ a[2] = b[2] + 1 /\ <<a[1], a[2]>> \notin g.horizontal_edges

\* the merged region of a cell: what is reachable from it through open boundaries
RECURSIVE GrowRegion(_, _)
GrowRegion(g, S) ==
    LET S2 == S \cup {b \in Cells(g) : \E a \in S : OpenBetween(g, a, b)}
    IN IF S2 = S THEN S ELSE GrowRegion(g, S2)

MergedRegion(g, cell) == GrowRegion(g, {cell})

----------------------------------------------------------------------------
(* C5: with fewer than 3 distinct snapped vertical rule positions or fewer  *)
(* than 3 distinct snapped horizontal rule positions (none at all           *)
(* included), build_grid followed by write_csv raises no exception and      *)
(* yields an empty matrix.                                                  *)
FewPositions ==
    \/ Len(dedupe_sorted(XValues, MERGE_TOL)) < 3
    \/ Len(dedupe_sorted(YValues, MERGE_TOL)) < 3

Orig_C5_FewLinesGiveEmptyMatrix ==
    (tpc \in {"written", "error"} /\ FewPositions) =>
        /\ tpc # "error"
        /\ matrix = <<>>

----------------------------------------------------------------------------
(* C6: merged-cell propagation.  A single text that lies inside one grid    *)
(* cell appears in the matrix in exactly the cells of that cell's merged    *)
(* region and the other cells are empty; in the 2x2 grid whose only open    *)
(* boundary is the vertical one between cells (0,0) and (1,0), a text "A"   *)
(* in cell (0,0) gives "A", "A" in the first row and an empty second row.   *)

\* one text-bearing entity with a non-blank text, inside cell
SingleTextIn(cell) ==
    /\ Len(msp) = 1
    /\ msp[1].type \in {"TEXT", "MTEXT", "INSERT"}
    /\ Strip(msp[1].text) # <<>>
    /\ InsideRect(msp[1], rect(grid, cell[1], cell[2]))

\* the 2x2 grid of the example: of the four inner boundaries only the one
\* between (0,0) and (1,0) is open
ExampleGrid ==
    /\ grid.rows = 2 /\ grid.cols = 2
    /\ {<<a, b>> \in Cells(grid) \X Cells(grid) : OpenBetween(grid, a, b)}
         = {<< <<0, 0>>, <<1, 0>> >>, << <<1, 0>>, <<0, 0>> >>}

Thm_C6_MergedCellPropagation ==
    tpc = "written" =>
        /\ \A cell \in Cells(grid) :
             SingleTextIn(cell) =>
                \A c2 \in Cells(grid) :
                    matrix[c2[2] + 1][c2[1] + 1] =
                        IF c2 \in MergedRegion(grid, cell) THEN Strip(msp[1].text) ELSE <<>>
        /\ (ExampleGrid /\ SingleTextIn(<<0, 0>>) /\ msp[1].text = <<"A">>) =>
               matrix = << << <<"A">>, <<"A">> >>, << <<>>, <<>> >> >>

\* The example itself: the 2x2 grid, the text "A" in cell (0,0), written out.
Wit_C6_ExampleWritten ==
    /\ tpc = "written"
    /\ ExampleGrid
    /\ SingleTextIn(<<0, 0>>)
    /\ msp[1].text = <<"A">>
    /\ matrix[1][2] = <<"A">>

----------------------------------------------------------------------------
(* C7: round trip on a fully ruled table.  The input is an m x n lattice:   *)
(* every cell boundary is covered by a rule segment and every cell holds    *)
(* one text inside it.  As stated: the matrix has m rows and n columns,     *)
(* matrix[r][c] is exactly the text of cell (c, r), and no two cells are    *)
(* merged.  As it holds: the same, provided neighbouring rule positions are *)
(* more than MERGE_TOL apart, with matrix[r][c] the text stripped of        *)
(* leading and trailing blanks.                                             *)

LatticeXs == SortedSeqOf({XValues[k] : k \in 1..Len(XValues)})

\* top to bottom
LatticeYs == Reverse(SortedSeqOf({YValues[k] : k \in 1..Len(YValues)}))

LatticeCols == Len(LatticeXs) - 1

LatticeRows == Len(LatticeYs) - 1

\* <<xmin, xmax, y_bottom, y_top>> of lattice cell (c, r)
LatticeRect(c, r) ==
    <<At(LatticeXs, c), At(LatticeXs, c + 1), At(LatticeYs, r + 1), At(LatticeYs, r)>>

LatticeCells == (0..(LatticeCols - 1)) \X (0..(LatticeRows - 1))

\* every cell boundary of the lattice is covered by a rule segment
AllBoundariesRuled ==
    /\ \A c \in 0..LatticeCols : \A r \in 0..(LatticeRows - 1) :
         \E k \in 1..Len(verticals) :
            /\ verticals[k][1] = At(LatticeXs, c)
            /\ verticals[k][2] <= At(LatticeYs, r + 1)
            /\ verticals[k][3] >= At(LatticeYs, r)
    /\ \A r \in 0..LatticeRows : \A c \in 0..(LatticeCols - 1) :
         \E k \in 1..Len(horizontals) :
            /\ horizontals[k][1] = At(LatticeYs, r)
            /\ horizontals[k][2] <= At(LatticeXs, c)
            /\ horizontals[k][3] >= At(LatticeXs, c + 1)

\* the texts placed in lattice cell (c, r)
TextsIn(c, r) == {k \in 1..Len(msp) : InsideRect(msp[k], LatticeRect(c, r))}

\* each cell holds one text, and there is no other entity
OneTextPerCell ==
    /\ Len(msp) = LatticeCols * LatticeRows
    /\ \A k \in 1..Len(msp) : msp[k].type \in {"TEXT", "MTEXT", "INSERT"}
    /\ \A cell \in LatticeCells : Cardinality(TextsIn(cell[1], cell[2])) = 1

TextOf(c, r) == msp[CHOOSE k \in TextsIn(c, r) : TRUE].text

FullyRuledTable ==
    /\ tpc = "written"
    /\ LatticeCols >= 1 /\ LatticeRows >= 1
    /\ AllBoundariesRuled
    /\ OneTextPerCell

\* neighbouring rule positions are more than MERGE_TOL apart
WellSpaced ==
    /\ \A c \in 0..(LatticeCols - 1) : At(LatticeXs, c + 1) - At(LatticeXs, c) > MERGE_TOL
    /\ \A r \in 0..(LatticeRows - 1) : At(LatticeYs, r) - At(LatticeYs, r + 1) > MERGE_TOL

NoCellsMerged == \A k \in 1..Len(build_regions(grid)) : Len(build_regions(grid)[k]) = 1

Orig_C7_RoundTrip ==
    FullyRuledTable =>
        /\ Len(matrix) = LatticeRows
        /\ \A r \in 1..Len(matrix) : Len(matrix[r]) = LatticeCols
        /\ \A cell \in LatticeCells :
             matrix[cell[2] + 1][cell[1] + 1] = TextOf(cell[1], cell[2])
        /\ NoCellsMerged

Thm_C7_RoundTripSpacedStripped ==
    (FullyRuledTable /\ WellSpaced) =>
        /\ Len(matrix) = LatticeRows
        /\ \A r \in 1..Len(matrix) : Len(matrix[r]) = LatticeCols
        /\ \A cell \in LatticeCells :
             matrix[cell[2] + 1][cell[1] + 1] = Strip(TextOf(cell[1], cell[2]))
        /\ NoCellsMerged

\* A fully ruled, well spaced 2 x 2 table with its four texts, written out.
Wit_C7_TwoByTwoWritten ==
    /\ FullyRuledTable /\ WellSpaced
    /\ LatticeCols = 2 /\ LatticeRows = 2
    /\ \E cell \in LatticeCells : Strip(TextOf(cell[1], cell[2])) # TextOf(cell[1], cell[2])

----------------------------------------------------------------------------
(* C11: after any sequence of calls to _assign_group_numeric_id and         *)
(* _assign_module_numeric_id on one context, each key-to-id map is          *)
(* injective, a key that was given an id gets that id on every later        *)
(* request, and each counter is one more than the number of keys in its map.*)

\* m maps no two keys to the same id
Injective(m) == \A k1 \in DOMAIN m : \A k2 \in DOMAIN m : m[k1] = m[k2] => k1 = k2

Thm_C11_CounterMapsInjective ==
    /\ Injective(ctx.group_id_map)
    /\ Injective(ctx.module_id_map)
    /\ ctx.next_group_id = Cardinality(DOMAIN ctx.group_id_map) + 1
    /\ ctx.next_module_id = Cardinality(DOMAIN ctx.module_id_map) + 1
    /\ \A q \in ctx.greq :
         /\ GroupKeyOf(q.layer, q.raw) \in DOMAIN ctx.group_id_map
         /\ ctx.group_id_map[GroupKeyOf(q.layer, q.raw)] = q.id
    /\ \A q \in ctx.mreq :
         /\ ModuleKeyOf(q.layer, q.raw) \in DOMAIN ctx.module_id_map
         /\ ctx.module_id_map[ModuleKeyOf(q.layer, q.raw)] = q.id

\* Both maps hold several keys, and keys were asked for again after their
\* first assignment: the path-vertex rows of a HATCH (one more request of the
\* path's group key each) and the rows of an expanded INSERT's children (one
\* more request of the INSERT's module key each).
Wit_C11_KeysReused ==
    /\ Cardinality(DOMAIN ctx.group_id_map) >= 2
    /\ Cardinality(DOMAIN ctx.module_id_map) >= 2
    /\ \E i \in RowIdx : rows[i].part = "pathvertex" /\ rows[i].gid # NoId
    /\ \E i \in RowIdx : \E j \in RowIdx :
         /\ rows[i].part = "insert" /\ rows[j].part # "insert"
         /\ IsPrefix(rows[i].src, rows[j].src)
         /\ rows[j].mid = rows[i].mid /\ rows[j].mid # NoId

----------------------------------------------------------------------------
(* C12: when a HATCH is flattened inside an INSERT expansion, every row it  *)
(* emits (seed, boundary-path, path-vertex and fallback rows) carries the   *)
(* ModuleId of the owning INSERT's row, and flattening the HATCH allocates  *)
(* no module id: next_module_id is the same before and after.               *)

\* row j was emitted by a call made from the child loop of an INSERT
Nested(j) == Len(rows[j].src) > 2

\* the path of the INSERT whose child loop made the call that emitted row j
OwnerPath(j) == SubSeq(rows[j].src, 1, Len(rows[j].src) - 1)

\* the step appended rows of a HATCH that was flattened inside an expansion
NestedHatchStep ==
    /\ Len(rows') > Len(rows)
    /\ rows'[Len(rows')].sub = "HATCH"
    /\ Len(rows'[Len(rows')].src) > 2

Thm_C12_NestedHatchKeepsModule ==
    /\ [](\A j \in RowIdx :
            (rows[j].sub = "HATCH" /\ Nested(j)) =>
                \E i \in RowIdx :
                    /\ rows[i].part = "insert"
                    /\ rows[i].src = OwnerPath(j)
                    /\ rows[j].mid = rows[i].mid
                    /\ rows[j].mid # NoId)
    /\ [][NestedHatchStep => ctx'.next_module_id = ctx.next_module_id]_vars

\* An expanded INSERT whose body held a HATCH with seed points and a HATCH
\* with boundary paths: seed, path and path-vertex rows were all emitted.
Wit_C12_NestedHatchRows ==
    /\ phase = "done"
    /\ \A part \in {"seed", "path", "pathvertex"} :
         \E j \in RowIdx : rows[j].sub = "HATCH" /\ Nested(j) /\ rows[j].part = part

----------------------------------------------------------------------------
(* C13: every emitted row carries an integer ModuleId: a row produced under *)
(* an INSERT expansion carries the id of the owning block instance, and a   *)
(* row of a top-level entity carries an id that identifies that entity.     *)
Orig_C13_EveryRowHasModuleId ==
    /\ \A j \in RowIdx : rows[j].mid # NoId
    /\ \A j \in RowIdx :
         (Nested(j) /\ rows[j].mid # NoId) =>
             \E i \in RowIdx : /\ rows[i].part = "insert"
                               /\ rows[i].src = OwnerPath(j)
                               /\ rows[j].mid = rows[i].mid
    /\ \A i \in RowIdx : \A j \in RowIdx :
         (/\ ~Nested(i) /\ ~Nested(j)
          /\ rows[i].mid # NoId /\ rows[i].mid = rows[j].mid)
         => rows[i].src = rows[j].src

----------------------------------------------------------------------------
(* C14: every row produced, at any nesting depth, by the expansion of a     *)
(* top-level INSERT has ModuleRoot equal to that INSERT's ModuleNowID; the  *)
(* top-level INSERT's own row has ModuleRoot equal to its own ModuleNowID   *)
(* and a blank ModuleFather; and following ModuleFather links from a nested *)
(* INSERT row reaches its ModuleRoot.                                       *)

\* the rows INSERTs left for themselves
InsertRows == {i \in RowIdx : rows[i].part = "insert"}

\* module n is target, or its chain of ModuleFather links leads to target
RECURSIVE FatherChainReaches(_, _, _)
FatherChainReaches(n, target, fuel) ==
    \/ n = target
    \/ /\ fuel > 0
       /\ n # NoId
       /\ \E i \in InsertRows :
            rows[i].now = n /\ FatherChainReaches(rows[i].father, target, fuel - 1)

Thm_C14_RootAndFatherLinks ==
    /\ \A j \in RowIdx :
         Nested(j) =>
             \E i \in InsertRows : /\ rows[i].src = TopOf(rows[j])
                                   /\ rows[j].root = rows[i].now
                                   /\ rows[j].root # NoId
    /\ \A i \in InsertRows :
         ~Nested(i) => /\ rows[i].root = rows[i].now
                       /\ rows[i].now # NoId
                       /\ rows[i].father = NoId
    /\ \A j \in InsertRows :
         Nested(j) => /\ rows[j].father # NoId
                      /\ rows[j].now # rows[j].root
                      /\ FatherChainReaches(rows[j].father, rows[j].root, Len(rows))

\* A finished run with an INSERT nested two levels deep whose father is not
\* its root, and a row of a non-INSERT child two levels deep.
Wit_C14_TwoLevelsDeep ==
    /\ phase = "done"
    /\ \E j \in InsertRows : /\ Len(rows[j].src) >= 4
                              /\ rows[j].father # rows[j].root
    /\ \E j \in RowIdx \ InsertRows : Len(rows[j].src) >= 4 /\ rows[j].root # NoId

----------------------------------------------------------------------------
(* C15: every row emitted for a child obtained by expanding an INSERT, an   *)
(* INSERT child or any other, has ModuleFather equal to the module id of    *)
(* the immediately enclosing INSERT: the ModuleNowID of that INSERT's row.  *)
Orig_C15_FatherIsEnclosingInsert ==
    \A j \in RowIdx :
        Nested(j) =>
            \E i \in InsertRows : /\ rows[i].src = OwnerPath(j)
                                  /\ rows[j].father = rows[i].now

----------------------------------------------------------------------------
(* C16: within one run two rows carry the same non-empty GroupId if and     *)
(* only if they were emitted for the same multi-row source entity: the same *)
(* LWPOLYLINE / POLYLINE or the same HATCH boundary path, entities produced *)
(* by nested INSERT expansion included.                                     *)

\* rows i and j were emitted for the same polyline or the same boundary path
SameSourceEntity(i, j) == rows[i].src = rows[j].src /\ rows[i].hpath = rows[j].hpath

Orig_C16_GroupIdIffSameEntity ==
    \A i \in RowIdx : \A j \in RowIdx :
        (rows[i].gid # NoId /\ rows[j].gid # NoId) =>
            ((rows[i].gid = rows[j].gid) <=> SameSourceEntity(i, j))

----------------------------------------------------------------------------
(* C17: if the document cannot be opened or parsed, export_dxf_to_csv fails *)
(* before the CSV file is opened: the failure is propagated to the caller,  *)
(* and no output file is created, truncated or partially written.           *)

\* the step in which export_dxf_to_csv is left by an exception
ExportFails == phase # "failed" /\ phase' = "failed"

Thm_C17_ReadFailureLeavesNoOutput ==
    /\ [][ExportFails => /\ phase = "start"
                         /\ err' \in ReadErrors
                         /\ csv' = csv
                         /\ past' = past]_vars
    /\ [](phase = "failed" => csv \in CsvStates /\ err \in ReadErrors)
    /\ [](phase # "failed" => err = "")

\* After an invocation that succeeded, a second one failed to parse its
\* document while a file of an earlier export was lying at its csv_path.
Wit_C17_FailedWithOldFile ==
    /\ phase = "failed"
    /\ err = "DXFStructureError"
    /\ csv = CsvOld
    /\ Len(past) >= 1

----------------------------------------------------------------------------
(* C18: id numbering is isolated per run and deterministic: every           *)
(* invocation of export_dxf_to_csv starts both counters and the INSERT      *)
(* counter at 1, and two invocations on the same document produce the same  *)
(* GroupId, ModuleId and ModuleNowID in every corresponding row, whatever   *)
(* documents were flattened before in the same process.                     *)

\* an invocation has read its document and not yet entered its first entity
WalkStarts == phase = "walk" /\ entered = {} /\ rows = <<>>

\* the ids of the rows of two invocations agree row by row
SameIds(rs1, rs2) ==
    /\ Len(rs1) = Len(rs2)
    /\ \A k \in 1..Len(rs1) : /\ rs1[k].gid = rs2[k].gid
                               /\ rs1[k].mid = rs2[k].mid
                               /\ rs1[k].now = rs2[k].now

Orig_C18_RunsIsolatedDeterministic ==
    /\ WalkStarts => /\ ctx.next_group_id = 1
                     /\ ctx.next_module_id = 1
                     /\ ctx.next_insert_id = 1
                     /\ ctx.group_id_map = <<>>
                     /\ ctx.module_id_map = <<>>
    /\ \A r1 \in 1..Len(past) : \A r2 \in 1..Len(past) :
         past[r1].doc = past[r2].doc => SameIds(past[r1].rows, past[r2].rows)

----------------------------------------------------------------------------
(* C19: when a layout yields several segment clusters that pass the         *)
(* minimum-size check, the table region isolated for reconstruction (the    *)
(* clip export_tables_structured writes as grid_1, which dxf_table_to_csv   *)
(* then reads) is the cluster whose grid has the smallest bounding-box area.*)
Orig_C19_Grid1IsSmallestCluster ==
    (xpc = "read" /\ Len(written) >= 2) =>
        /\ tableInput = _bbox_from_grid(_choose_best_cluster(v_segs, h_segs))
        /\ \A k \in 1..Len(written) :
             ~RatLess(BBoxArea(written[k]), BBoxArea(tableInput))

----------------------------------------------------------------------------
(* C20: build_regions partitions the grid: every cell (col, row) with       *)
(* 0 <= col < cols and 0 <= row < rows belongs to exactly one region, and   *)
(* two cells are in the same region if and only if one can be reached from  *)
(* the other by steps between adjacent cells whose shared boundary is open,  *)
(* for regions of any shape, L-shapes included.                             *)

\* the cells of a region, as a set
CellsOf(region) == {region[m] : m \in 1..Len(region)}

Thm_C20_RegionsPartitionGrid ==
    tpc = "written" =>
        LET regs == build_regions(grid) IN
        /\ \A c \in Cells(grid) :
             Cardinality({k \in 1..Len(regs) : c \in CellsOf(regs[k])}) = 1
        /\ \A k \in 1..Len(regs) :
             /\ regs[k] # <<>>
             /\ CellsOf(regs[k]) \subseteq Cells(grid)
             /\ Cardinality(CellsOf(regs[k])) = Len(regs[k])
             /\ \A c \in CellsOf(regs[k]) : CellsOf(regs[k]) = MergedRegion(grid, c)

\* A written 2 x 2 table in which three cells form an L-shaped region and
\* the fourth cell is a region of its own.
Wit_C20_LShapedRegion ==
    /\ tpc = "written"
    /\ grid.cols = 2 /\ grid.rows = 2
    /\ LET regs == build_regions(grid) IN
         /\ Len(regs) = 2
         /\ \E k \in 1..2 : Len(regs[k]) = 3

----------------------------------------------------------------------------
(* C21: coordinate snapping, in both dedupe_sorted and _snap_positions,     *)
(* maps any two input values that differ by at most the tolerance to one    *)
(* and the same representative, and that representative is the arithmetic   *)
(* mean of the input values merged into it.                                 *)

\* out snaps the values ins: some assignment of every input to an output
\* sends inputs within tol of each other to the same output, uses every
\* output, and makes every output the mean of the inputs assigned to it.
SnapsToMeans(ins, out, tol) ==
    \E rep \in [1..Len(ins) -> 1..Len(out)] :
        /\ \A a, b \in 1..Len(ins) : RatWithin(ins[a], ins[b], tol) => rep[a] = rep[b]
        /\ \A k \in 1..Len(out) :
             LET members == SelectSeq([a \in 1..Len(ins) |-> IF rep[a] = k THEN ins[a] ELSE <<>>],
                                      LAMBDA v : v # <<>>)
             IN members # <<>> /\ RatMean(members) = out[k]

SnapInRat == [k \in 1..Len(snapIn) |-> RatOfInt(snapIn[k])]

SnapPositionsToMeans ==
    snapPc # "start" => SnapsToMeans(SnapInRat, snapOut1.s, snapTol)

DedupeToMeans ==
    snapPc # "start" =>
        SnapsToMeans(SnapInRat, [k \in 1..Len(snapOut1.d) |-> RatOfInt(snapOut1.d[k])], snapTol)

Orig_C21_SnapToMeanOfMerged == SnapPositionsToMeans /\ DedupeToMeans

----------------------------------------------------------------------------
(* C22: for every grid that build_grid can return and every point (x, y),   *)
(* Grid.point_to_cell returns None exactly when x or y lies more than       *)
(* MERGE_TOL outside the grid extent, and otherwise returns a cell address  *)
(* (col, row) with 0 <= col < cols and 0 <= row < rows, where               *)
(* rows = len(ys_desc) - 1 and cols = len(xs) - 1.                          *)

\* coordinates on, between, just inside and just outside the rule positions
\* of VPool and HPool and their MERGE_TOL margin
ProbeCoords == {-11, -10, -2, 0, 4, 8, 14, 20, 30, 40, 50, 51}

GridBuilt == tpc \in {"grid", "contents", "written"}

\* x or y lies more than MERGE_TOL outside the extent of g
FarOutside(g, x, y) ==
    LET xmin == CHOOSE v \in CellsOf(g.xs) : \A w \in CellsOf(g.xs) : v <= w
        xmax == CHOOSE v \in CellsOf(g.xs) : \A w \in CellsOf(g.xs) : v >= w
        ymin == CHOOSE v \in CellsOf(g.ys_desc) : \A w \in CellsOf(g.ys_desc) : v <= w
        ymax == CHOOSE v \in CellsOf(g.ys_desc) : \A w \in CellsOf(g.ys_desc) : v >= w
    IN x < xmin - MERGE_TOL \/ x > xmax + MERGE_TOL \/ y < ymin - MERGE_TOL \/ y > ymax + MERGE_TOL

CellAddressOk(g, x, y) ==
    LET c == point_to_cell(g, x, y) IN
    /\ (c = <<>>) <=> FarOutside(g, x, y)
    /\ c # <<>> => /\ 0 <= c[1] /\ c[1] < g.cols
                   /\ 0 <= c[2] /\ c[2] < g.rows

Orig_C22_PointToCellInRange ==
    GridBuilt =>
        /\ grid.rows = Len(grid.ys_desc) - 1
        /\ grid.cols = Len(grid.xs) - 1
        /\ \A x, y \in ProbeCoords : CellAddressOk(grid, x, y)

----------------------------------------------------------------------------
(* C23: for a grid with at least two lines per axis and a point (x, y)      *)
(* inside the grid extent (xs[0] <= x <= xs[-1],                            *)
(* ys_desc[-1] <= y <= ys_desc[0]), the cell returned by Grid.point_to_cell *)
(* is a containing cell: its rectangle from Grid.rect satisfies             *)
(* xmin <= x <= xmax and y_bottom <= y <= y_top.                            *)

InsideExtent(g, x, y) ==
    /\ At(g.xs, 0) <= x /\ x <= Last(g.xs)
    /\ Last(g.ys_desc) <= y /\ y <= At(g.ys_desc, 0)

\* point_to_cell(x, y) is a cell whose rect contains (x, y)
InReturnedCell(g, x, y) ==
    LET c == point_to_cell(g, x, y) IN
    /\ c # <<>>
    /\ LET rc == rect(g, c[1], c[2]) IN
         /\ rc[1] <= x /\ x <= rc[2]
         /\ rc[3] <= y /\ y <= rc[4]

Thm_C23_ReturnedCellContainsPoint ==
    (GridBuilt /\ Len(grid.xs) >= 2 /\ Len(grid.ys_desc) >= 2) =>
        /\ tpc = "grid" =>
             \A x, y \in ProbeCoords : InsideExtent(grid, x, y) => InReturnedCell(grid, x, y)
        /\ \A k \in 1..Len(msp) :
             InsideExtent(grid, msp[k].x, msp[k].y) => InReturnedCell(grid, msp[k].x, msp[k].y)

\* A 2 x 2 grid whose top-left and bottom-right cells both received a text
\* through point_to_cell.
Wit_C23_TextsLocated ==
    /\ tpc = "contents"
    /\ grid.cols = 2 /\ grid.rows = 2
    /\ {<<0, 0>>, <<1, 1>>} \subseteq DOMAIN contents

----------------------------------------------------------------------------
(* C24: build_grid marks the boundary of a cell span on a grid line as      *)
(* present if and only if at least one single input segment assigned to     *)
(* that grid line overlaps the span by at least EDGE_COVER_RATIO (0.6)      *)
(* times max(AXIS_TOL, span length); otherwise the boundary is left open.   *)

\* the length of the part of [lo, hi] that the segment <<p, a, b>> covers
CoveredLength(seg, lo, hi) ==
    LET a == Min2(seg[2], seg[3])
        b == Max2(seg[2], seg[3])
    IN IF Min2(b, hi) > Max2(a, lo) THEN Min2(b, hi) - Max2(a, lo) ELSE 0

\* some one segment assigned to line i of ps covers enough of [lo, hi]
SomeSegmentCovers(segs, ps, i, lo, hi) ==
    \E k \in 1..Len(segs) :
        /\ NearestIndex(ps, segs[k][1]) = i
        /\ EDGE_COVER_DEN * CoveredLength(segs[k], lo, hi)
             >= EDGE_COVER_NUM * (IF hi - lo > AXIS_TOL THEN hi - lo ELSE AXIS_TOL)

\* the equivalence for the vertical and horizontal grid lines from index
\* first on
EdgesAsCovered(first) ==
    /\ \A i \in first..(Len(grid.xs) - 1) : \A j \in 0..(grid.rows - 1) :
         (<<i, j>> \in grid.vertical_edges)
           <=> SomeSegmentCovers(verticals, grid.xs, i,
                                 At(grid.ys_desc, j + 1), At(grid.ys_desc, j))
    /\ \A j \in first..(Len(grid.ys_desc) - 1) : \A i \in 0..(grid.cols - 1) :
         (<<i, j>> \in grid.horizontal_edges)
           <=> SomeSegmentCovers(horizontals, grid.ys_desc, j,
                                 At(grid.xs, i), At(grid.xs, i + 1))

Orig_C24_EdgePresentIffCovered == GridBuilt => EdgesAsCovered(0)

----------------------------------------------------------------------------
(* C25: the texts of the primitives that land in the same raw cell are      *)
(* concatenated in encounter order with duplicates removed, and the         *)
(* resulting string is what every cell of that cell's merged region carries *)
(* in the output; all cells of one region carry an identical string.        *)

\* the non-blank stripped texts of the entities of msp that point_to_cell
\* places in cell, in the order of msp
LandedIn(cell) ==
    LET lands(e) == /\ e.type \in {"TEXT", "MTEXT", "INSERT"}
                    /\ point_to_cell(grid, e.x, e.y) = cell
                    /\ Strip(e.text) # <<>>
        hits == SelectSeq(msp, lands)
    IN [k \in 1..Len(hits) |-> Strip(hits[k].text)]

\* ts without the repetitions of earlier members
RECURSIVE Dedup(_)
Dedup(ts) ==
    IF ts = <<>> THEN <<>>
    ELSE LET front == Dedup(SubSeq(ts, 1, Len(ts) - 1))
         IN IF \E k \in 1..(Len(ts) - 1) : ts[k] = Last(ts) THEN front
            ELSE Append(front, Last(ts))

\* the words of a string, split at single spaces
RECURSIVE Words(_)
Words(s) ==
    IF s = <<>> THEN <<>>
    ELSE IF \A k \in 1..Len(s) : s[k] # " " THEN <<s>>
    ELSE LET p == CHOOSE k \in 1..Len(s) : s[k] = " " /\ \A m \in 1..(k - 1) : s[m] # " "
         IN <<SubSeq(s, 1, p - 1)>> \o Words(SubSeq(s, p + 1, Len(s)))

MatrixAt(c) == matrix[c[2] + 1][c[1] + 1]

\* every cell of a region carries the same string
RegionCellsAgree ==
    \A c \in Cells(grid) : \A d \in MergedRegion(grid, c) : MatrixAt(d) = MatrixAt(c)

Orig_C25_RawCellTextBroadcast ==
    tpc = "written" =>
        /\ RegionCellsAgree
        /\ \A c \in Cells(grid) :
             LandedIn(c) # <<>> =>
                \A d \in MergedRegion(grid, c) : MatrixAt(d) = Join(Dedup(LandedIn(c)))

\* C25 as it holds: the string of a region is made of the texts of all the
\* raw cells of the region.  A region without texts carries the empty
\* string; a region with one text-bearing raw cell carries that cell's texts
\* in encounter order without repetitions, joined by single spaces; in
\* general the string holds every distinct text landed anywhere in the
\* region exactly once, separated by single spaces.
Thm_C25_RegionTextBroadcast ==
    tpc = "written" =>
        /\ RegionCellsAgree
        /\ \A c \in Cells(grid) :
             LET region == MergedRegion(grid, c)
                 bearing == {d \in region : LandedIn(d) # <<>>}
                 words == Words(MatrixAt(c))
             IN /\ bearing = {} => MatrixAt(c) = <<>>
                /\ \A d \in bearing :
                     bearing = {d} => MatrixAt(c) = Join(Dedup(LandedIn(d)))
                /\ CellsOf(words) = UNION {CellsOf(LandedIn(d)) : d \in bearing}
                /\ Cardinality(CellsOf(words)) = Len(words)

\* A written table with a merged region in which two raw cells bear texts
\* and one of them received the same text twice.
Wit_C25_TwoBearingCellsOneRegion ==
    /\ tpc = "written"
    /\ \E c \in Cells(grid) :
         LET region == MergedRegion(grid, c) IN
         /\ Cardinality({d \in region : LandedIn(d) # <<>>}) >= 2
         /\ \E d \in region : Len(Dedup(LandedIn(d))) < Len(LandedIn(d))
         /\ Len(Words(MatrixAt(c))) >= 2

----------------------------------------------------------------------------
(* C26: _cluster_segments returns the connected components of the bipartite *)
(* intersection graph: a vertical and a horizontal segment that intersect   *)
(* within the tolerance are always in the same cluster, the clusters are    *)
(* pairwise disjoint in their vertical and in their horizontal index lists, *)
(* and every cluster contains at least one vertical and at least one        *)
(* horizontal segment.                                                      *)

\* vertical i and horizontal j of the layout intersect within the tolerance
Meets(i, j) ==
    LET v == v_segs[i]
        h == h_segs[j]
    IN /\ Min2(h[2], h[3]) - INTERSECT_TOL <= v[1] /\ v[1] <= Max2(h[2], h[3]) + INTERSECT_TOL
       /\ Min2(v[2], v[3]) - INTERSECT_TOL <= h[1] /\ h[1] <= Max2(v[2], v[3]) + INTERSECT_TOL

\* the segments joined to the tagged segments of S by one more intersection
GrowLinked(S) ==
    S \cup {<<"h", j>> : j \in {j \in 1..Len(h_segs) : \E i \in 1..Len(v_segs) :
                                   <<"v", i>> \in S /\ Meets(i, j)}}
      \cup {<<"v", i>> : i \in {i \in 1..Len(v_segs) : \E j \in 1..Len(h_segs) :
                                   <<"h", j>> \in S /\ Meets(i, j)}}

\* the connected component of the tagged segment n
RECURSIVE LinkedComponent(_)
LinkedComponent(S) == IF GrowLinked(S) = S THEN S ELSE LinkedComponent(GrowLinked(S))

\* the segments of a cluster, tagged
Members(c) == {<<"v", i>> : i \in c.v} \cup {<<"h", j>> : j \in c.h}

Thm_C26_ClustersAreComponents ==
    xpc = "exported" =>
        LET cl == _cluster_segments(v_segs, h_segs) IN
        /\ \A i \in 1..Len(v_segs) : \A j \in 1..Len(h_segs) :
             Meets(i, j) => \E k \in 1..Len(cl) : i \in cl[k].v /\ j \in cl[k].h
        /\ \A k, m \in 1..Len(cl) :
             k # m => cl[k].v \cap cl[m].v = {} /\ cl[k].h \cap cl[m].h = {}
        /\ \A k \in 1..Len(cl) :
             /\ cl[k].v # {} /\ cl[k].h # {}
             /\ cl[k].v \subseteq 1..Len(v_segs) /\ cl[k].h \subseteq 1..Len(h_segs)
             /\ \A n \in Members(cl[k]) : Members(cl[k]) = LinkedComponent({n})

\* A layout with two clusters, one of them two boxes joined only by the
\* bridging horizontal, and with a vertical and a horizontal that meet
\* nothing and are in no cluster.
Wit_C26_BridgedAndLoose ==
    /\ xpc = "exported"
    /\ LET cl == _cluster_segments(v_segs, h_segs) IN
         /\ Len(cl) = 2
         /\ \E k \in 1..2 : Cardinality(cl[k].v) = 6 /\ Cardinality(cl[k].h) = 7
         /\ \E i \in 1..Len(v_segs) : \A k \in 1..2 : i \notin cl[k].v
         /\ \E j \in 1..Len(h_segs) : \A k \in 1..2 : j \notin cl[k].h

----------------------------------------------------------------------------
(* C27: no entity is flattened at a nesting depth greater than 10: every    *)
(* INSERT reached at depth 0..9 has its children flattened at depth + 1     *)
(* (its child loop is run, and the rows of its children are one level       *)
(* deeper), whereas an INSERT reached at depth 10 emits its own row and     *)
(* none of its children, so a chain of self-nested INSERTs contributes      *)
(* exactly 11 INSERT rows, one at each depth 0..10.                         *)

\* the nesting depth at which the entity of path p is handled
DepthOf(p) == Len(p) - 2

\* the entities handled inside the expansion of the INSERT at path p
Below(p) == {q \in entered : Len(q) > Len(p) /\ IsPrefix(p, q)}

----------------------------------------------------------------------------
(* C28: within one flatten run, INSERT rows receive ModuleNowID values      *)
(* 1, 2, 3, ... in the order their rows are emitted (pre-order over the     *)
(* block tree), no ModuleNowID is given to two different INSERT             *)
(* occurrences, and every nested INSERT row's ModuleFather is strictly      *)
(* smaller than its own ModuleNowID.                                        *)

\* the INSERT rows before row i
InsertRowsBefore(i) == {j \in InsertRows : j < i}

Thm_C28_NowIdsCountInsertRows ==
    /\ \A i \in InsertRows : rows[i].now = Cardinality(InsertRowsBefore(i)) + 1
    /\ \A i, j \in InsertRows : rows[i].now = rows[j].now => rows[i].src = rows[j].src
    /\ \A i \in InsertRows :
         DepthOf(rows[i].src) > 0 =>
            /\ rows[i].father # NoId
            /\ rows[i].father < rows[i].now
    /\ \A i, j \in InsertRows :
         (i < j /\ IsPrefix(rows[i].src, rows[j].src)) => rows[i].now < rows[j].now

\* A finished run with a top-level INSERT row, an INSERT row nested in it,
\* and a second top-level INSERT row numbered after the nested one.
Wit_C28_NestedThenSibling ==
    /\ phase = "done"
    /\ \E i, j, k \in InsertRows :
         /\ DepthOf(rows[i].src) = 0 /\ DepthOf(rows[j].src) = 1 /\ DepthOf(rows[k].src) = 0
         /\ i < j /\ j < k
         /\ rows[j].father = rows[i].now
         /\ rows[k].now > rows[j].now

----------------------------------------------------------------------------
(* C29: open-boundary adjacency is symmetric: for any grid and any two      *)
(* cells a and b, Grid.neighbors_if_no_edge(a) yields b if and only if      *)
(* Grid.neighbors_if_no_edge(b) yields a, and it only ever yields cells     *)
(* inside the grid that are horizontally or vertically adjacent to its      *)
(* argument.                                                                *)

\* the cells neighbors_if_no_edge yields for cell a of grid g
Yields(g, a) == CellsOf(neighbors_if_no_edge(g, a[1], a[2]))

Adjacent(a, b) == Abs(a[1] - b[1]) + Abs(a[2] - b[2]) = 1

SymmetricOn(g) ==
    \A a \in Cells(g) :
        /\ Yields(g, a) \subseteq Cells(g)
        /\ \A b \in Yields(g, a) : Adjacent(a, b) /\ a \in Yields(g, b)

\* the grid with any sets of marked edges in place of the ones build_grid found
AnyEdges(g) ==
    {[g EXCEPT !.vertical_edges = ve, !.horizontal_edges = he] :
        ve \in SUBSET ((1..Max2(g.cols, 0)) \X (0..(g.rows - 1))),
        he \in SUBSET ((0..(g.cols - 1)) \X (1..Max2(g.rows, 0)))}

Thm_C29_OpenAdjacencySymmetric ==
    /\ GridBuilt => SymmetricOn(grid)
    /\ tpc = "grid" => \A g \in AnyEdges(grid) : SymmetricOn(g)

\* A written 2 x 2 table with an open vertical and an open horizontal inner
\* boundary next to closed ones: one cell has neighbours across both, and
\* one cell has none.
Wit_C29_OpenAndClosedBoundaries ==
    /\ tpc = "written"
    /\ grid.cols = 2 /\ grid.rows = 2
    /\ \E a \in Cells(grid) : Cardinality(Yields(grid, a)) = 2
    /\ \E a \in Cells(grid) : Yields(grid, a) = {}

----------------------------------------------------------------------------
(* C30: the end-to-end pipeline entry point main in main.py runs its steps  *)
(* in a fixed order and returns 0 only if every step it attempted completed *)
(* successfully; as soon as one step fails or reports a non-zero result,    *)
(* main returns a non-zero code and no later step is run.                   *)

\* the steps in the order main calls them
StepOrder ==
    << "inputs", "convert_pile", "convert_uplift", "extract", "table_csv", "legend",
       "uplift_csv", "annotate_union", "annot_csv", "uplift_force", "pile_types",
       "zoned", "colorize", "uplift_params", "compression_params" >>

PositionOf(name) == CHOOSE k \in 1..Len(StepOrder) : StepOrder[k] = name

\* the call failed or reported a non-zero result
StepFailed(entry) ==
    \/ entry.out.kind \in {"exc", "exitmsg", "missing"}
    \/ entry.out.kind \in {"exit", "ret"} /\ entry.out.code # 0

\* main ended without returning 0
EndedNonZero == pret.kind = "raised" \/ (pret.kind = "returned" /\ pret.code # 0)

StepsInFixedOrder ==
    \A a, b \in 1..Len(plog) :
        a < b => PositionOf(plog[a].step) < PositionOf(plog[b].step)

Orig_C30_PipelineStopsAtFirstFailure ==
    /\ StepsInFixedOrder
    /\ (pret.kind = "returned" /\ pret.code = 0) =>
          \A k \in 1..Len(plog) : ~StepFailed(plog[k])
    /\ \A k \in 1..Len(plog) :
          StepFailed(plog[k]) => k = Len(plog) /\ EndedNonZero

=============================================================================
